---- MODULE Spec2Model ----
(***************************************************************************)
(* A model of the Kafka wire-protocol broker of this repository: the       *)
(* primitive codec (protocol/primitives.rs), the request decoder           *)
(* (protocol/request.rs), the response encoder (protocol/response.rs),     *)
(* the metadata index lookups (protocol/cluster_metadata.rs) and the two   *)
(* connection servers the library exports, ServerAsync (server_async.rs)   *)
(* and ServerSync (server_sync.rs).                                        *)
(*                                                                         *)
(* Bytes are the integers 0..255, buffers are sequences of bytes, strings  *)
(* are the sequences of their UTF-8 bytes.  A decoder takes the unread part *)
(* of a buffer and returns a result record: st = "ok" with the value v and  *)
(* the bytes left in rest, st = "err" (the Rust function returned Err) or   *)
(* st = "panic" (the Rust function panicked), v naming the cause.           *)
(***************************************************************************)
EXTENDS Integers, Sequences, FiniteSets, TLC

VARIABLES
    server,      \* the server type the program built: "ServerAsync" or "ServerSync"
    metadata,    \* the ClusterMetadata the server holds (Arc<ClusterMetadata>)
    run,         \* the program's position: "start", "built", "failed" (new returned
                 \* Err), "listening" (run waits in accept), "handling" (ServerSync's
                 \* run is inside conn.handle()), "returned" (run returned Err),
                 \* "panicked" (run unwound)
    backlog,     \* connections the clients established and run has not yet accepted
    peer,        \* per client, its end of the connection: "idle", "open",
                 \* "closed" (it shut the connection down), "reset" (it aborted it)
    inbox,       \* per client: the bytes it sent that the server has not read yet
    sent,        \* number of segments the clients have sent
    pc,          \* per client, its Connection::handle task: "none", "read" (in
                 \* read_request), "write" (in write_response), "done" (returned),
                 \* "panicked", "refused" (accept or Connection::new failed)
    request,     \* per client: the request last decoded on its connection
    response,    \* per client: the ResponseV0 built for that request
    decoded,     \* per client: the correlation ids, as the client sent them, of
                 \* the requests decoded on its connection, in order
    outbox,      \* per client: the frames written to its connection, in order
    lastRead,    \* per client: the bytes its last socket read returned
    exit         \* per client: why its task ended

vars == << server, metadata, run, backlog, peer, inbox, sent, pc, request,
           response, decoded, outbox, lastRead, exit >>

----------------------------------------------------------------------------
(* Bounds of the model *)

MaxSends == 2

----------------------------------------------------------------------------
(* Byte and buffer helpers (the `bytes` crate's Buf/BufMut as the code uses them) *)

\* TLC's integers are 32 bits wide.  A signed value of any width is held as
\* itself; a u32 is held as the i32 with the same 32 bits (u32 values below 2^31
\* are themselves, those from 2^31 up are negative).
Pow2(n) == 2 ^ n

MaxI32 == 2147483647

MinI32 == -2147483647 - 1

Take(s, n) == SubSeq(s, 1, n)

Drop(s, n) == SubSeq(s, n + 1, Len(s))

\* from_be_bytes of an unsigned integer of at most 3 bytes
RECURSIVE BEUnsigned(_)
BEUnsigned(s) ==
    IF s = << >> THEN 0 ELSE BEUnsigned(Take(s, Len(s) - 1)) * 256 + s[Len(s)]

\* from_be_bytes of a two's complement integer
RECURSIVE BESigned(_)
BESigned(s) ==
    IF Len(s) = 1 THEN (IF s[1] >= 128 THEN s[1] - 256 ELSE s[1])
    ELSE BESigned(Take(s, Len(s) - 1)) * 256 + s[Len(s)]

\* to_be_bytes of a two's complement integer in n bytes
RECURSIVE BEBytes(_, _)
BEBytes(v, n) ==
    IF n = 0 THEN << >>
    ELSE Append(BEBytes((v - (v % 256)) \div 256, n - 1), v % 256)

Ok(v, rest) == [st |-> "ok", v |-> v, rest |-> rest]

Err(e) == [st |-> "err", v |-> e, rest |-> << >>]

Panic(e) == [st |-> "panic", v |-> e, rest |-> << >>]

\* `let x = r?; Then(x)`: a failure of r is returned, its success is handed on
Try(r, Then(_)) == IF r.st # "ok" THEN r ELSE Then(r)

\* `let x = v; In(x)`
Let(v, In(_)) == In(v)

\* `.map_err(|e| IoError::new(..))`
map_err(r, e) == IF r.st = "err" THEN Err(e) ELSE r

\* Buf::try_get_iN / try_get_uN: Err(TryGetError) when fewer than N/8 bytes remain
try_get_unsigned(buf, n) ==
    IF Len(buf) < n THEN Err("TryGetError")
    ELSE Ok(BEUnsigned(Take(buf, n)), Drop(buf, n))

try_get_signed(buf, n) ==
    IF Len(buf) < n THEN Err("TryGetError")
    ELSE Ok(BESigned(Take(buf, n)), Drop(buf, n))

try_get_u8(buf) == try_get_unsigned(buf, 1)

try_get_i8(buf) == try_get_signed(buf, 1)

try_get_i16(buf) == try_get_signed(buf, 2)

try_get_i32(buf) == try_get_signed(buf, 4)

try_get_i64(buf) == try_get_signed(buf, 8)

\* Buf::copy_to_slice(dst): panics when fewer than dst.len() bytes remain
\* (n < 0 is a u32 length of 2^31 or more)
copy_to_slice(buf, n) ==
    IF n < 0 \/ Len(buf) < n THEN Panic("copy_to_slice")
    ELSE Ok(Take(buf, n), Drop(buf, n))

put_u8(v) == << v >>

put_i16(v) == BEBytes(v, 2)

put_i32(v) == BEBytes(v, 4)

put_u32(v) == BEBytes(v, 4)

put_i64(v) == BEBytes(v, 8)

\* String::from_utf8: whether the bytes are well-formed UTF-8
RECURSIVE Utf8Valid(_)
Utf8Valid(s) ==
    IF s = << >> THEN TRUE
    ELSE LET b == s[1]
             Cont(i) == i <= Len(s) /\ s[i] >= 128 /\ s[i] <= 191
         IN  IF b <= 127 THEN Utf8Valid(Drop(s, 1))
             ELSE IF b >= 194 /\ b <= 223 THEN Cont(2) /\ Utf8Valid(Drop(s, 2))
             ELSE IF b >= 224 /\ b <= 239 THEN
                  /\ Cont(2) /\ Cont(3)
                  /\ (b = 224 => s[2] >= 160)
                  /\ (b = 237 => s[2] <= 159)
                  /\ Utf8Valid(Drop(s, 3))
             ELSE IF b >= 240 /\ b <= 244 THEN
                  /\ Cont(2) /\ Cont(3) /\ Cont(4)
                  /\ (b = 240 => s[2] >= 144)
                  /\ (b = 244 => s[2] <= 143)
                  /\ Utf8Valid(Drop(s, 4))
             ELSE FALSE

----------------------------------------------------------------------------
(* protocol/primitives.rs *)

\* enum ApiKey as i16
ApiVersionsKey == 18

DescribeTopicPartitionsKey == 75

\* The Fetch variant server_async.rs names; primitives.rs declares no such variant
FetchKey == 1

\* ApiKey::to_be_bytes: the i16 the variant is written as
ApiKey_to_i16(key) ==
    CASE key = "ApiVersions" -> ApiVersionsKey
      [] key = "DescribeTopicPartitions" -> DescribeTopicPartitionsKey

ApiKey_Fetch_to_i16(key) == FetchKey

ApiKey_to_be_bytes(key) ==
    IF key = "Fetch" THEN put_i16(ApiKey_Fetch_to_i16(key)) ELSE put_i16(ApiKey_to_i16(key))

\* A mutant of ApiKey_from_i16: a key it does not know is taken for ApiVersions
ApiKey_from_i16_AcceptsOther(key, rest) ==
    CASE key = 18 -> Ok("ApiVersions", rest)
      [] key = 75 -> Ok("DescribeTopicPartitions", rest)
      [] OTHER -> Ok("ApiVersions", rest)

\* ApiKey::from_be_bytes as primitives.rs has it
ApiKey_from_i16(key, rest) ==
    CASE key = 18 -> Ok("ApiVersions", rest)
      [] key = 75 -> Ok("DescribeTopicPartitions", rest)
      [] OTHER -> Err("UnsupportedApiKey")

\* The arm of the Fetch variant, which request.rs and server_async.rs match on
\* and primitives.rs does not declare
ApiKey_Fetch_from_i16(key, rest) ==
    IF key = FetchKey THEN Ok("Fetch", rest) ELSE ApiKey_from_i16(key, rest)

ApiKey_from_be_bytes(buf) ==
    Try(try_get_i16(buf), LAMBDA key : ApiKey_Fetch_from_i16(key.v, key.rest))

None == [some |-> FALSE, s |-> << >>]

Some(s) == [some |-> TRUE, s |-> s]

NullableString_to_be_bytes(x) ==
    IF ~x.some THEN put_i16(-1) ELSE put_i16(Len(x.s)) \o x.s

\* `vec![0u8; len as usize]` panics (capacity overflow) for a negative len other
\* than -1; copy_to_slice panics when fewer than len bytes remain.
NullableString_from_be_bytes(buf) ==
    Try(try_get_i16(buf), LAMBDA len :
        IF len.v = -1 THEN Ok(None, len.rest)
        ELSE IF len.v < 0 THEN Panic("capacity overflow")
        ELSE Try(copy_to_slice(len.rest, len.v), LAMBDA str_buf :
                 IF ~Utf8Valid(str_buf.v) THEN Err("IoError")
                 ELSE Ok(Some(str_buf.v), str_buf.rest)))

\* u32 `|`: the operands the varint loops combine never share a set bit
BitOr32(a, b) == a + b

\* (val as u32) << shift for a 7-bit val: bits shifted past bit 31 are dropped
Shl32(val, shift) ==
    IF shift < 28 THEN val * Pow2(shift)
    ELSE (val % 8) * Pow2(28) + (IF (val \div 8) % 2 = 1 THEN MinI32 ELSE 0)

\* u - 1 for a u32 u > 0
Dec32(u) == IF u = MinI32 THEN MaxI32 ELSE u - 1

\* u32 >> n, for 1 <= n <= 30
Shr32(u, n) == IF u >= 0 THEN u \div Pow2(n) ELSE (u \div Pow2(n)) + Pow2(31 - n) + Pow2(31 - n)

\* One turn of the loop of UnsignedVarInt::from_be_bytes and VarInt::from_be_bytes
RECURSIVE UnsignedVarInt_loop(_, _, _)
UnsignedVarInt_loop(buf, result, shift) ==
    Try(map_err(try_get_u8(buf), "IoError"), LAMBDA byte :
        IF byte.v < 128 THEN Ok(BitOr32(result, Shl32(byte.v % 128, shift)), byte.rest)
        ELSE IF shift + 7 > 28 THEN Err("IoError")
        ELSE UnsignedVarInt_loop(byte.rest, BitOr32(result, Shl32(byte.v % 128, shift)),
                                 shift + 7))

UnsignedVarInt_from_be_bytes(buf) == UnsignedVarInt_loop(buf, 0, 0)

\* The value as u32, 7 bits a byte, least significant first
RECURSIVE UnsignedVarInt_to_be_bytes(_)
UnsignedVarInt_to_be_bytes(value) ==
    IF value >= 0 /\ value < 128 THEN << value >>
    ELSE << (value % 128) + 128 >> \o UnsignedVarInt_to_be_bytes(Shr32(value, 7))

\* A mutant of ZigZagDecode: the sign bit is dropped and never applied
ZigZagDecode_NoSign(result) == Shr32(result, 1)

\* zig-zag decode: ((result >> 1) as i32) ^ (-((result & 1) as i32))
ZigZagDecode(result) ==
    IF result % 2 = 0 THEN Shr32(result, 1) ELSE -Shr32(result, 1) - 1

\* zig-zag encode: ((value << 1) ^ (value >> 31)) as u32
ZigZagEncode(value) ==
    IF value >= 0
    THEN (IF value < Pow2(30) THEN 2 * value ELSE 2 * (value - MaxI32 - 1))
    ELSE (IF value >= -Pow2(30) THEN -2 * (value + 1) + 1 ELSE -2 * ((value + MaxI32) + 1) - 1)

VarInt_from_be_bytes(buf) ==
    Try(UnsignedVarInt_loop(buf, 0, 0), LAMBDA result :
        Ok(ZigZagDecode(result.v), result.rest))

VarInt_to_be_bytes(value) == UnsignedVarInt_to_be_bytes(ZigZagEncode(value))

CompactString_to_be_bytes(value) ==
    UnsignedVarInt_to_be_bytes(Len(value) + 1) \o value

\* `value - 1` on the u32 length: with overflow checks a length of 0 panics at the
\* subtraction; without them it wraps to 2^32 - 1 and copy_to_slice panics,
\* since no buffer read here holds that many bytes.
CompactString_from_be_bytes(buf) ==
    Try(UnsignedVarInt_from_be_bytes(buf), LAMBDA value :
        IF value.v = 0 THEN Panic("subtract with overflow")
        ELSE IF value.v = 1 THEN Ok(<< >>, value.rest)
        ELSE Try(copy_to_slice(value.rest, Dec32(value.v)), LAMBDA str_buf :
                 IF ~Utf8Valid(str_buf.v) THEN Err("IoError")
                 ELSE Ok(str_buf.v, str_buf.rest)))

INT32_from_be_bytes(buf) == try_get_i32(buf)

INT32_to_be_bytes(value) == put_i32(value)

\* Uuid read through copy_to_slice into [0u8; 16] and Uuid::from_slice
Uuid_from_be_bytes(buf) == copy_to_slice(buf, 16)

NilUuid == [i \in 1..16 |-> 0]

----------------------------------------------------------------------------
(* protocol/request.rs: the request decoders.  Each `...?` returns the first *)
(* failure; a panic unwinds through every caller.                             *)

\* `for _ in 0..len { array.push(T::from_be_bytes(buf)?) }`
RECURSIVE CompactArray_elems(_, _, _, _)
CompactArray_elems(Elem(_), buf, n, acc) ==
    IF n = 0 THEN Ok(acc, buf)
    ELSE Try(Elem(buf), LAMBDA item :
             CompactArray_elems(Elem, item.rest, Dec32(n), Append(acc, item.v)))

\* CompactArray<T>::from_be_bytes (primitives.rs); a failed allocation in
\* Vec::with_capacity is not modelled.
CompactArray_from_be_bytes(Elem(_), buf) ==
    Try(UnsignedVarInt_from_be_bytes(buf), LAMBDA len :
        IF len.v = 0 THEN Ok(<< >>, len.rest)
        ELSE CompactArray_elems(Elem, len.rest, Dec32(len.v), << >>))

\* CompactArray::<NullableString>::from_be_bytes, the type of every `tag` field
TagBuffer_from_be_bytes(buf) == CompactArray_from_be_bytes(NullableString_from_be_bytes, buf)

RequestHeaderV2_from_be_bytes(buf) ==
    Try(ApiKey_from_be_bytes(buf), LAMBDA request_api_key :
    Try(try_get_i16(request_api_key.rest), LAMBDA request_api_version :
    Try(try_get_i32(request_api_version.rest), LAMBDA correlation_id :
    Try(NullableString_from_be_bytes(correlation_id.rest), LAMBDA client_id :
    Try(TagBuffer_from_be_bytes(client_id.rest), LAMBDA tag :
    Ok([request_api_key |-> request_api_key.v,
        request_api_version |-> request_api_version.v,
        correlation_id |-> correlation_id.v,
        client_id |-> client_id.v, tag |-> tag.v], tag.rest))))))

ApiVersionsRequestV4_from_be_bytes(buf) ==
    Try(CompactString_from_be_bytes(buf), LAMBDA client_software_name :
    Try(CompactString_from_be_bytes(client_software_name.rest), LAMBDA client_software_version :
    Try(TagBuffer_from_be_bytes(client_software_version.rest), LAMBDA tag :
    Ok([type |-> "ApiVersionsRequestV4",
        client_software_name |-> client_software_name.v,
        client_software_version |-> client_software_version.v, tag |-> tag.v],
       tag.rest))))

Request_Topic_from_be_bytes(buf) ==
    Try(CompactString_from_be_bytes(buf), LAMBDA topic :
    Try(TagBuffer_from_be_bytes(topic.rest), LAMBDA tag :
    Ok([topic |-> topic.v, tag |-> tag.v], tag.rest)))

DescribeTopicPartitionsRequestV0_from_be_bytes(buf) ==
    Try(CompactArray_from_be_bytes(Request_Topic_from_be_bytes, buf), LAMBDA topics :
    Try(try_get_i32(topics.rest), LAMBDA response_partition_limit :
    Try(try_get_u8(response_partition_limit.rest), LAMBDA cursor :
    Try(TagBuffer_from_be_bytes(cursor.rest), LAMBDA tag :
    Ok([type |-> "DescribeTopicPartitionsRequestV0", topics |-> topics.v,
        response_partiotion_limit |-> response_partition_limit.v,
        cursor |-> cursor.v, tag |-> tag.v], tag.rest)))))

Request_Partition_from_be_bytes(buf) ==
    Try(try_get_i32(buf), LAMBDA partition :
    Try(try_get_i32(partition.rest), LAMBDA current_leader_epoch :
    Try(try_get_i64(current_leader_epoch.rest), LAMBDA fetch_offset :
    Try(try_get_i32(fetch_offset.rest), LAMBDA last_fetched_epoch :
    Try(try_get_i64(last_fetched_epoch.rest), LAMBDA log_start_offset :
    Try(try_get_i32(log_start_offset.rest), LAMBDA partition_max_bytes :
    Ok([partition |-> partition.v, current_leader_epoch |-> current_leader_epoch.v,
        fetch_offset |-> fetch_offset.v, last_fetched_epoch |-> last_fetched_epoch.v,
        log_start_offset |-> log_start_offset.v,
        partition_max_bytes |-> partition_max_bytes.v], partition_max_bytes.rest)))))))

TopicsPartitions_from_be_bytes(buf) ==
    Try(Uuid_from_be_bytes(buf), LAMBDA topic_id :
    Try(CompactArray_from_be_bytes(Request_Partition_from_be_bytes, topic_id.rest), LAMBDA partitions :
    Try(TagBuffer_from_be_bytes(partitions.rest), LAMBDA tag :
    Ok([topic_id |-> topic_id.v, partitions |-> partitions.v, tag |-> tag.v], tag.rest))))

ForgottenTopic_from_be_bytes(buf) ==
    Try(Uuid_from_be_bytes(buf), LAMBDA topic_id :
    Try(try_get_i32(topic_id.rest), LAMBDA partitions :
    Ok([topic_id |-> topic_id.v, partitions |-> partitions.v], partitions.rest)))

FetchRequestV16_from_be_bytes(buf) ==
    Try(try_get_i32(buf), LAMBDA max_wait_ms :
    Try(try_get_i32(max_wait_ms.rest), LAMBDA min_bytes :
    Try(try_get_i32(min_bytes.rest), LAMBDA max_bytes :
    Try(try_get_i8(max_bytes.rest), LAMBDA isolation_level :
    Try(try_get_i32(isolation_level.rest), LAMBDA session_id :
    Try(try_get_i32(session_id.rest), LAMBDA session_epoch :
    Try(CompactArray_from_be_bytes(TopicsPartitions_from_be_bytes, session_epoch.rest), LAMBDA topics :
    Try(CompactArray_from_be_bytes(ForgottenTopic_from_be_bytes, topics.rest), LAMBDA forgotten_topics :
    Try(CompactString_from_be_bytes(forgotten_topics.rest), LAMBDA rack_id :
    Ok([type |-> "FetchRequestV16", max_wait_ms |-> max_wait_ms.v,
        min_bytes |-> min_bytes.v, max_bytes |-> max_bytes.v,
        isolation_level |-> isolation_level.v, session_id |-> session_id.v,
        session_epoch |-> session_epoch.v, topics |-> topics.v,
        forgotten_topics |-> forgotten_topics.v, rack_id |-> rack_id.v], rack_id.rest))))))))))

\* `match header.request_api_key` of RequestV0::from_be_bytes
RequestBody_from_be_bytes(request_api_key, buf) ==
    CASE request_api_key = "ApiVersions" -> ApiVersionsRequestV4_from_be_bytes(buf)
      [] request_api_key = "DescribeTopicPartitions" ->
           DescribeTopicPartitionsRequestV0_from_be_bytes(buf)
      [] request_api_key = "Fetch" -> FetchRequestV16_from_be_bytes(buf)

\* RequestV0::from_be_bytes: message_size, the header, then the body the header's
\* api key selects, all read from the same buffer
RequestV0_from_be_bytes(buf) ==
    Try(try_get_i32(buf), LAMBDA message_size :
    Try(RequestHeaderV2_from_be_bytes(message_size.rest), LAMBDA header :
    Try(RequestBody_from_be_bytes(header.v.request_api_key, header.rest), LAMBDA body :
    Ok([message_size |-> message_size.v, header |-> header.v, body |-> body.v],
       body.rest))))

\* DescribeTopicPartitionsRequestV0::topic_names
topic_names(body) == [i \in 1..Len(body.topics) |-> body.topics[i].topic]

----------------------------------------------------------------------------
(* protocol/response.rs: the response structures and their encoders *)

\* enum ErrorCode as i16
ErrorCode_as_i16(code) ==
    CASE code = "None" -> 0
      [] code = "UnknownServerError" -> -1
      [] code = "UnsupportedVersion" -> 35
      [] code = "UnknownTopicOrPartition" -> 3
      [] code = "UnknownTopic" -> 100

RECURSIVE Concat(_)
Concat(ss) == IF ss = << >> THEN << >> ELSE ss[1] \o Concat(Tail(ss))

\* CompactArray<T>::to_be_bytes (primitives.rs), Enc being T::to_be_bytes
CompactArray_to_be_bytes(Enc(_), array) ==
    IF array = << >> THEN << 0 >>
    ELSE UnsignedVarInt_to_be_bytes(Len(array) + 1)
         \o Concat([i \in 1..Len(array) |-> Enc(array[i])])

TagBuffer_to_be_bytes(tag) == CompactArray_to_be_bytes(NullableString_to_be_bytes, tag)

\* CompactRecords is named by response.rs and server_async.rs; primitives.rs
\* does not define it.  Its encoding is the spec's COMPACT_RECORDS.
CompactRecords_to_be_bytes(records) ==
    UnsignedVarInt_to_be_bytes(Len(records) + 1) \o records

CompactRecords_default == << >>

ResponseHeaderV0_new(correlation_id) ==
    [version |-> "V0", correlation_id |-> correlation_id, tag |-> << >>]

\* A mutant of ResponseHeaderV1_new: the header does not take the request's
\* correlation id
ResponseHeaderV1_new_OwnId(correlation_id) ==
    [version |-> "V1", correlation_id |-> 0, tag |-> << >>]

ResponseHeaderV1_new(correlation_id) ==
    [version |-> "V1", correlation_id |-> correlation_id, tag |-> << >>]

ResponseHeaderV0_to_be_bytes(header) == put_i32(header.correlation_id)

ResponseHeaderV1_to_be_bytes(header) ==
    put_i32(header.correlation_id) \o TagBuffer_to_be_bytes(header.tag)

ResponseHeader_to_be_bytes(header) ==
    IF header.version = "V0" THEN ResponseHeaderV0_to_be_bytes(header)
    ELSE ResponseHeaderV1_to_be_bytes(header)

ApiVersion_new(api_key, min_version, max_version, tag) ==
    [api_key |-> api_key, min_version |-> min_version, max_version |-> max_version,
     tag |-> tag]

ApiVersion_to_be_bytes(v) ==
    ApiKey_to_be_bytes(v.api_key) \o put_i16(v.min_version) \o put_i16(v.max_version)
    \o TagBuffer_to_be_bytes(v.tag)

ApiVersionsResponseBodyV4_new(error_code, api_versions, throttle_time_ms, tag) ==
    [type |-> "ApiVersionsResponseV4", error_code |-> error_code,
     api_versions |-> api_versions, throttle_time_ms |-> throttle_time_ms, tag |-> tag]

ApiVersionsResponseBodyV4_to_be_bytes(body) ==
    put_i16(ErrorCode_as_i16(body.error_code))
    \o CompactArray_to_be_bytes(ApiVersion_to_be_bytes, body.api_versions)
    \o put_i32(body.throttle_time_ms)
    \o TagBuffer_to_be_bytes(body.tag)

\* response::Partition
Response_Partition_to_be_bytes(p) ==
    put_i16(ErrorCode_as_i16(p.error_code)) \o put_i32(p.partition_index)
    \o put_i32(p.leader) \o put_i32(p.leader_epoch)
    \o CompactArray_to_be_bytes(INT32_to_be_bytes, p.replica_nodes)
    \o CompactArray_to_be_bytes(INT32_to_be_bytes, p.isr_nodes)
    \o VarInt_to_be_bytes(p.eligible_leader_replicas)
    \o put_u8(p.last_known_elr) \o put_u8(p.offline_replicas) \o put_u8(p.tag_buffer)

\* A mutant of Partition_from: the replicas are taken from the ISR
Partition_from_IsrAsReplicas(partition_record) ==
    [error_code |-> "None", partition_index |-> partition_record.partition_id,
     leader |-> partition_record.leader, leader_epoch |-> partition_record.leader_epoch,
     replica_nodes |-> partition_record.in_sync_replica_array,
     isr_nodes |-> partition_record.in_sync_replica_array,
     eligible_leader_replicas |-> 0, last_known_elr |-> 0, offline_replicas |-> 0,
     tag_buffer |-> 0]

\* impl From<&PartitionRecordValue> for Partition
Partition_from(partition_record) ==
    [error_code |-> "None", partition_index |-> partition_record.partition_id,
     leader |-> partition_record.leader, leader_epoch |-> partition_record.leader_epoch,
     replica_nodes |-> partition_record.replica_array,
     isr_nodes |-> partition_record.in_sync_replica_array,
     eligible_leader_replicas |-> 0, last_known_elr |-> 0, offline_replicas |-> 0,
     tag_buffer |-> 0]

\* response::Topic
Topic_new(error_code, name, id, is_internal, partitions, authorized_operations, tag) ==
    [error_code |-> error_code, name |-> name, id |-> id, is_internal |-> is_internal,
     partitions |-> partitions, authorized_operations |-> authorized_operations,
     tag |-> tag]

\* A mutant of Topic_from_unknown_topic: the topic is reported without error
Topic_from_unknown_topic_NoError(topic_name) ==
    [error_code |-> "None", name |-> topic_name, id |-> NilUuid,
     is_internal |-> FALSE, partitions |-> << >>, authorized_operations |-> 0,
     tag |-> << >>]

Topic_from_unknown_topic(topic_name) ==
    [error_code |-> "UnknownTopicOrPartition", name |-> topic_name, id |-> NilUuid,
     is_internal |-> FALSE, partitions |-> << >>, authorized_operations |-> 0,
     tag |-> << >>]

Response_Topic_to_be_bytes(t) ==
    put_i16(ErrorCode_as_i16(t.error_code)) \o CompactString_to_be_bytes(t.name)
    \o t.id \o put_u8(IF t.is_internal THEN 1 ELSE 0)
    \o CompactArray_to_be_bytes(Response_Partition_to_be_bytes, t.partitions)
    \o put_u32(t.authorized_operations) \o TagBuffer_to_be_bytes(t.tag)

DescribeTopicPartiotionsResponseBodyV0_new(throttle_time_ms, topics, next_cursor, tag) ==
    [type |-> "DescribeTopicPartiotionsResponseV0", throttle_time_ms |-> throttle_time_ms,
     topics |-> topics, next_cursor |-> next_cursor, tag |-> tag]

DescribeTopicPartiotionsResponseBodyV0_to_be_bytes(body) ==
    put_i32(body.throttle_time_ms)
    \o CompactArray_to_be_bytes(Response_Topic_to_be_bytes, body.topics)
    \o put_u8(body.next_cursor) \o TagBuffer_to_be_bytes(body.tag)

AbortedTransaction_to_be_bytes(a) == put_i64(a.producer_id) \o put_i64(a.first_offset)

FetchResponsePartition_new(partition_index, error_code, high_watermark, last_stable_offset, log_start_offset, aborted_transactions, prefrred_read_replica, records) ==
    [partition_index |-> partition_index, error_code |-> error_code,
     high_watermark |-> high_watermark, last_stable_offset |-> last_stable_offset,
     log_start_offset |-> log_start_offset,
     aborted_transactions |-> aborted_transactions,
     prefrred_read_replica |-> prefrred_read_replica, records |-> records,
     tag |-> << >>]

FetchResponsePartition_to_be_bytes(p) ==
    put_i32(p.partition_index) \o put_i16(ErrorCode_as_i16(p.error_code))
    \o put_i64(p.high_watermark) \o put_i64(p.last_stable_offset)
    \o put_i64(p.log_start_offset)
    \o CompactArray_to_be_bytes(AbortedTransaction_to_be_bytes, p.aborted_transactions)
    \o put_i32(p.prefrred_read_replica) \o CompactRecords_to_be_bytes(p.records)
    \o TagBuffer_to_be_bytes(p.tag)

FetchResponseTopic_new(topic_id, partitions) ==
    [topic_id |-> topic_id, partitions |-> partitions, tag |-> << >>]

FetchResponseTopic_to_be_bytes(t) ==
    t.topic_id \o CompactArray_to_be_bytes(FetchResponsePartition_to_be_bytes, t.partitions)
    \o TagBuffer_to_be_bytes(t.tag)

FetchResponseBodyV16_of(responses) ==
    [type |-> "FetchResponseV16", throttle_time_ms |-> 0, error_code |-> "None",
     session_id |-> 0, responses |-> responses, tag |-> << >>]

\* A mutant of FetchResponseBodyV16_with_record_for_topic: the last byte of the
\* record batch is left out
FetchResponseBodyV16_with_record_for_topic_Cut(topic_id, record_batch) ==
    FetchResponseBodyV16_of(<< FetchResponseTopic_new(topic_id,
        << FetchResponsePartition_new(0, "None", 0, 0, 0, << >>, 0,
               SubSeq(record_batch, 1, Len(record_batch) - 1)) >>) >>)

FetchResponseBodyV16_with_record_for_topic(topic_id, record_batch) ==
    FetchResponseBodyV16_of(<< FetchResponseTopic_new(topic_id,
        << FetchResponsePartition_new(0, "None", 0, 0, 0, << >>, 0, record_batch) >>) >>)

\* A mutant of FetchResponseBodyV16_unknown_topic: the partition entry carries
\* no error
FetchResponseBodyV16_unknown_topic_NoError(topic_id) ==
    FetchResponseBodyV16_of(<< FetchResponseTopic_new(topic_id,
        << FetchResponsePartition_new(0, "None", 0, 0, 0, << >>, 0,
                                      CompactRecords_default) >>) >>)

FetchResponseBodyV16_unknown_topic(topic_id) ==
    FetchResponseBodyV16_of(<< FetchResponseTopic_new(topic_id,
        << FetchResponsePartition_new(0, "UnknownTopic", 0, 0, 0, << >>, 0,
                                      CompactRecords_default) >>) >>)

FetchResponseBodyV16_empty_topic(topic_id) ==
    FetchResponseBodyV16_of(<< FetchResponseTopic_new(topic_id,
        << FetchResponsePartition_new(0, "None", 0, 0, 0, << >>, 0,
                                      CompactRecords_default) >>) >>)

FetchResponseBodyV16_default == FetchResponseBodyV16_of(<< >>)

FetchResponseBodyV16_to_be_bytes(body) ==
    put_i32(body.throttle_time_ms) \o put_i16(ErrorCode_as_i16(body.error_code))
    \o put_i32(body.session_id)
    \o CompactArray_to_be_bytes(FetchResponseTopic_to_be_bytes, body.responses)
    \o TagBuffer_to_be_bytes(body.tag)

ResponseBody_to_be_bytes(body) ==
    CASE body.type = "ApiVersionsResponseV4" -> ApiVersionsResponseBodyV4_to_be_bytes(body)
      [] body.type = "DescribeTopicPartiotionsResponseV0" ->
             DescribeTopicPartiotionsResponseBodyV0_to_be_bytes(body)
      [] body.type = "FetchResponseV16" -> FetchResponseBodyV16_to_be_bytes(body)

ResponseV0_new(message_size, header, body) ==
    [message_size |-> message_size, header |-> header, body |-> body]

ResponseV0_to_be_bytes(resp) ==
    put_i32(resp.message_size) \o ResponseHeader_to_be_bytes(resp.header)
    \o ResponseBody_to_be_bytes(resp.body)

----------------------------------------------------------------------------
(* protocol/cluster_metadata.rs: the index and its lookups.  The BTreeMap    *)
(* base_offset -> Batch is held as the sequence of its batches in increasing *)
(* base_offset order, the order `values()` iterates them in.  A record is    *)
(* held as its RecordValueByType: [type, ...the fields of that type].        *)

Uuid(n) == [i \in 1..16 |-> IF i = 16 THEN n ELSE 0]

RECURSIVE FlatMap(_, _)
FlatMap(F(_), batches) ==
    IF batches = << >> THEN << >> ELSE F(batches[1]) \o FlatMap(F, Tail(batches))

Batch_find_topic_records_by_topic(batch, topic) ==
    SelectSeq(batch.records, LAMBDA record : record.type = "Topic" /\ record.name = topic)

Batch_find_topic_records_by_id(batch, topic_id) ==
    SelectSeq(batch.records,
              LAMBDA record : record.type = "Topic" /\ record.topic_uuid = topic_id)

Batch_find_partition_records_by_topic_uuid(batch, topic_uuid) ==
    SelectSeq(batch.records,
              LAMBDA record : record.type = "Partition" /\ record.topic_uuid = topic_uuid)

find_topic_records_by_topic(md, topic) ==
    FlatMap(LAMBDA batch : Batch_find_topic_records_by_topic(batch, topic), md)

find_topic_records_by_id(md, topic_id) ==
    FlatMap(LAMBDA batch : Batch_find_topic_records_by_id(batch, topic_id), md)

find_partition_records_by_topic_uuid(md, topic_uuid) ==
    FlatMap(LAMBDA batch : Batch_find_partition_records_by_topic_uuid(batch, topic_uuid), md)

\* Called by server_async.rs; cluster_metadata.rs does not define it.  The spec
\* lists it as the partition ids of the partition records of a topic uuid.
find_partition_record_ids_by_topic_uuid(md, topic_uuid) ==
    Let(find_partition_records_by_topic_uuid(md, topic_uuid), LAMBDA records :
        [i \in 1..Len(records) |-> records[i].partition_id])

----------------------------------------------------------------------------
(* protocol/cluster_metadata.rs: loading the index from the metadata log.    *)
(* An io::Error is held as its ErrorKind; a record of a batch is held as its *)
(* RecordValueByType, the other fields of Record and RecordValue are parsed  *)
(* and dropped.                                                               *)

\* a ^ b for a, b < 2^4, and for a, b < 2^16
Xor4(a, b) ==
    ((a + b) % 2) + 2 * (((a \div 2) + (b \div 2)) % 2)
    + 4 * (((a \div 4) + (b \div 4)) % 2) + 8 * (((a \div 8) + (b \div 8)) % 2)

Xor16(a, b) ==
    Xor4(a % 16, b % 16) + 16 * Xor4((a \div 16) % 16, (b \div 16) % 16)
    + 256 * Xor4((a \div 256) % 16, (b \div 256) % 16)
    + 4096 * Xor4(a \div 4096, b \div 4096)

\* The reflected Castagnoli polynomial 0x82F63B78; a u32 of the checksum is
\* held as its two 16-bit halves
Castagnoli == [hi |-> 33526, lo |-> 15224]

\* k turns of `crc = (crc >> 1) ^ (poly & -(crc & 1))`
RECURSIVE crc32c_shift(_, _)
crc32c_shift(crc, k) ==
    IF k = 0 THEN crc
    ELSE IF crc.lo % 2 = 1
    THEN crc32c_shift([hi |-> Xor16(crc.hi \div 2, Castagnoli.hi),
                       lo |-> Xor16((crc.lo \div 2) + (crc.hi % 2) * 32768,
                                    Castagnoli.lo)], k - 1)
    ELSE crc32c_shift([hi |-> crc.hi \div 2,
                       lo |-> (crc.lo \div 2) + (crc.hi % 2) * 32768], k - 1)

\* The table of the byte-wise algorithm: the eight turns for each low byte
crc32c_table == [x \in 0..255 |-> crc32c_shift([hi |-> 0, lo |-> x], 8)]

\* `crc = table[(crc ^ byte) & 0xFF] ^ (crc >> 8)`
crc32c_byte(crc, byte) ==
    Let(crc32c_table[Xor16(crc.lo % 256, byte)], LAMBDA t :
        [hi |-> Xor16(t.hi, crc.hi \div 256),
         lo |-> Xor16(t.lo, (crc.lo \div 256) + (crc.hi % 256) * 256)])

\* The bytes i..j folded into the checksum, one after the other.  The range
\* is halved, and the checksum of the first half is evaluated before the
\* second half is entered, to keep the evaluation shallow.
RECURSIVE crc32c_update(_, _, _, _)
crc32c_update(crc, bytes, i, j) ==
    IF crc.lo \notin 0..65535 \/ i > j THEN crc
    ELSE IF i = j THEN crc32c_byte(crc, bytes[i])
    ELSE crc32c_update(crc32c_update(crc, bytes, i, (i + j) \div 2), bytes,
                       ((i + j) \div 2) + 1, j)

\* crc32c::crc32c: CRC-32C of the bytes (initial value and final xor 0xFFFFFFFF),
\* as the i32 with the same 32 bits
crc32c(bytes) ==
    Let(crc32c_update([hi |-> 65535, lo |-> 65535], bytes, 1, Len(bytes)), LAMBDA crc :
        BESigned(BEBytes(65535 - crc.hi, 2) \o BEBytes(65535 - crc.lo, 2)))

\* Buf::try_get_u16, and try_get_u32 as the i32 with the same 32 bits
try_get_u16(buf) == try_get_unsigned(buf, 2)

try_get_u32(buf) == try_get_signed(buf, 4)

\* Bytes::split_to(at): panics when at exceeds the length (a negative i32 cast
\* to usize exceeds every length)
split_to(buf, at) ==
    IF at < 0 \/ at > Len(buf) THEN Panic("split_to out of bounds")
    ELSE Ok(Take(buf, at), Drop(buf, at))

\* `?` on a TryGetError in a function returning io::Error: From<TryGetError>
\* builds the io::Error with ErrorKind::Other
io_from(r) == map_err(r, "Other")

\* .map_err(|e| io::Error::new(ErrorKind::InvalidData, ..))
InvalidData(r) == map_err(r, "InvalidData")

\* A mutant of crc_checksum: the stored crc is read and not compared
crc_checksum_Unchecked(bytes) ==
    Try(map_err(try_get_u32(bytes), "UnexpectedEof"), LAMBDA crc : Ok(crc.v, crc.rest))

\* crc_checksum: the stored crc against the CRC-32C of all the bytes of the
\* batch after it
crc_checksum(bytes) ==
    Try(map_err(try_get_u32(bytes), "UnexpectedEof"), LAMBDA crc :
        IF crc32c(crc.rest) # crc.v THEN Err("InvalidData") ELSE Ok(crc.v, crc.rest))

FeatureRecordValue_try_from(bytes) ==
    Try(InvalidData(CompactString_from_be_bytes(bytes)), LAMBDA name :
    Try(try_get_i16(name.rest), LAMBDA feature_level :
    Try(UnsignedVarInt_from_be_bytes(feature_level.rest), LAMBDA tagged_fields_count :
    Ok([type |-> "Feature", name |-> name.v, feature_level |-> feature_level.v,
        tagged_fields_count |-> tagged_fields_count.v], tagged_fields_count.rest))))

TopicRecordValue_try_from(bytes) ==
    Try(InvalidData(CompactString_from_be_bytes(bytes)), LAMBDA name :
    Try(split_to(name.rest, 16), LAMBDA topic_uuid :
    Try(UnsignedVarInt_from_be_bytes(topic_uuid.rest), LAMBDA tagged_fields_count :
    Ok([type |-> "Topic", name |-> name.v, topic_uuid |-> topic_uuid.v,
        tagged_fields_count |-> tagged_fields_count.v], tagged_fields_count.rest))))

\* `for _ in 0..directories_array_len { .. Uuid::from_slice(&bytes.split_to(16)) .. }`
RECURSIVE directories_array_from(_, _, _)
directories_array_from(bytes, n, acc) ==
    IF n = 0 THEN Ok(acc, bytes)
    ELSE Try(split_to(bytes, 16), LAMBDA directory :
             directories_array_from(directory.rest, Dec32(n), Append(acc, directory.v)))

\* PartitionRecordValue::try_from, its fields up to adding_replicas_array
PartitionRecordValue_replicas(bytes) ==
    Try(try_get_i32(bytes), LAMBDA partition_id :
    Try(split_to(partition_id.rest, 16), LAMBDA topic_uuid :
    Try(InvalidData(CompactArray_from_be_bytes(INT32_from_be_bytes, topic_uuid.rest)), LAMBDA replica_array :
    Try(InvalidData(CompactArray_from_be_bytes(INT32_from_be_bytes, replica_array.rest)), LAMBDA in_sync_replica_array :
    Try(InvalidData(CompactArray_from_be_bytes(INT32_from_be_bytes, in_sync_replica_array.rest)), LAMBDA removing_replicas_array :
    Try(InvalidData(CompactArray_from_be_bytes(INT32_from_be_bytes, removing_replicas_array.rest)), LAMBDA adding_replicas_array :
    Ok([partition_id |-> partition_id.v, topic_uuid |-> topic_uuid.v,
        replica_array |-> replica_array.v,
        in_sync_replica_array |-> in_sync_replica_array.v,
        removing_replicas_array |-> removing_replicas_array.v,
        adding_replicas_array |-> adding_replicas_array.v],
       adding_replicas_array.rest)))))))

\* PartitionRecordValue::try_from, the fields after adding_replicas_array.
\* `value() - 1` on the u32 count: zero panics at the subtraction with overflow
\* checks, and without them asks for 2^32 - 1 directories of bytes that are not
\* there, where split_to panics
PartitionRecordValue_try_from(bytes) ==
    Try(PartitionRecordValue_replicas(bytes), LAMBDA replicas :
    Try(try_get_i32(replicas.rest), LAMBDA leader :
    Try(try_get_i32(leader.rest), LAMBDA leader_epoch :
    Try(try_get_i32(leader_epoch.rest), LAMBDA partition_epoch :
    Try(UnsignedVarInt_from_be_bytes(partition_epoch.rest), LAMBDA directories_array_len :
        IF directories_array_len.v = 0 THEN Panic("subtract with overflow")
        ELSE
    Try(directories_array_from(directories_array_len.rest, Dec32(directories_array_len.v), << >>), LAMBDA directories_array :
    Try(UnsignedVarInt_from_be_bytes(directories_array.rest), LAMBDA tagged_fields_count :
    Ok([type |-> "Partition", partition_id |-> replicas.v.partition_id,
        topic_uuid |-> replicas.v.topic_uuid, replica_array |-> replicas.v.replica_array,
        in_sync_replica_array |-> replicas.v.in_sync_replica_array,
        removing_replicas_array |-> replicas.v.removing_replicas_array,
        adding_replicas_array |-> replicas.v.adding_replicas_array,
        leader |-> leader.v, leader_epoch |-> leader_epoch.v,
        partition_epoch |-> partition_epoch.v,
        directories_array |-> directories_array.v,
        tagged_fields_count |-> tagged_fields_count.v],
       tagged_fields_count.rest))))))))

\* RecordValueByType::try_from: `match record_type`
RecordValueByType_try_from(bytes, record_type) ==
    CASE record_type = 12 -> FeatureRecordValue_try_from(bytes)
      [] record_type = 2 -> TopicRecordValue_try_from(bytes)
      [] record_type = 3 -> PartitionRecordValue_try_from(bytes)
      [] OTHER -> Ok([type |-> "Unknown", bytes |-> bytes], bytes)

RecordValue_try_from(bytes) ==
    Try(try_get_i8(bytes), LAMBDA frame_version :
    Try(try_get_i8(frame_version.rest), LAMBDA record_type :
    Try(try_get_i8(record_type.rest), LAMBDA version :
        InvalidData(RecordValueByType_try_from(version.rest, record_type.v)))))

\* `if length < 0 { empty } else { bytes.split_to(length as usize) }`
split_to_length(bytes, length) ==
    IF length < 0 THEN Ok(<< >>, bytes) ELSE split_to(bytes, length)

\* Record::try_from, up to the value_length bytes split off for the value;
\* record_length bounds nothing
Record_fields(bytes) ==
    Try(VarInt_from_be_bytes(bytes), LAMBDA record_length :
    Try(try_get_u8(record_length.rest), LAMBDA attributes :
    Try(VarInt_from_be_bytes(attributes.rest), LAMBDA timestamp_delta :
    Try(VarInt_from_be_bytes(timestamp_delta.rest), LAMBDA offset_delta :
    Try(VarInt_from_be_bytes(offset_delta.rest), LAMBDA key_length :
    Try(split_to_length(key_length.rest, key_length.v), LAMBDA key :
    Try(VarInt_from_be_bytes(key.rest), LAMBDA value_length :
    Try(split_to_length(value_length.rest, value_length.v), LAMBDA record_contents :
    Ok(record_contents.v, record_contents.rest)))))))))

\* Record::try_from: the value is parsed from the bytes split off for it, the
\* headers count is read behind them
Record_try_from(bytes) ==
    Try(Record_fields(bytes), LAMBDA record_contents :
    Try(InvalidData(RecordValue_try_from(record_contents.v)), LAMBDA record_value :
    Try(UnsignedVarInt_from_be_bytes(record_contents.rest), LAMBDA headers_array_count :
    Ok(record_value.v, headers_array_count.rest))))

\* `for _ in 0..records_length { records.push(Record::try_from(&mut bytes)..?) }`
RECURSIVE Batch_records_from(_, _, _)
Batch_records_from(bytes, n, acc) ==
    IF n = 0 THEN Ok(acc, bytes)
    ELSE Try(InvalidData(Record_try_from(bytes)), LAMBDA record :
             Batch_records_from(record.rest, n - 1, Append(acc, record.v)))

\* Batch::try_from, up to records_length: base_offset and batch_length are
\* read from the log, everything else from the batch_length bytes split off
\* it.  The result's rest is the log after the batch.
Batch_fields(bytes) ==
    Try(map_err(try_get_i64(bytes), "UnexpectedEof"), LAMBDA base_offset :
    Try(io_from(try_get_i32(base_offset.rest)), LAMBDA batch_length :
    Try(split_to(batch_length.rest, batch_length.v), LAMBDA batch :
    Try(io_from(try_get_i32(batch.v)), LAMBDA partition_leader_epoch :
    Try(io_from(try_get_u8(partition_leader_epoch.rest)), LAMBDA magic_byte :
    Try(InvalidData(crc_checksum(magic_byte.rest)), LAMBDA crc :
    Try(io_from(try_get_u16(crc.rest)), LAMBDA attributes :
    Try(io_from(try_get_i32(attributes.rest)), LAMBDA last_offset_delta :
    Try(io_from(try_get_i64(last_offset_delta.rest)), LAMBDA base_timestamp :
    Try(io_from(try_get_i64(base_timestamp.rest)), LAMBDA max_timestamp :
    Try(io_from(try_get_i64(max_timestamp.rest)), LAMBDA producer_id :
    Try(io_from(try_get_i16(producer_id.rest)), LAMBDA producer_epoch :
    Try(io_from(try_get_i32(producer_epoch.rest)), LAMBDA base_sequence :
    Try(io_from(try_get_i32(base_sequence.rest)), LAMBDA records_length :
    Ok([base_offset |-> base_offset.v, records_length |-> records_length.v,
        records |-> records_length.rest], batch.rest)))))))))))))))

\* Batch::try_from: the records are read from what is left of the bytes of the
\* batch; what the records leave of those bytes is dropped
Batch_try_from(bytes) ==
    Try(Batch_fields(bytes), LAMBDA fields :
        IF fields.v.records_length < 0 THEN Panic("capacity overflow")
        ELSE
    Try(Batch_records_from(fields.v.records, fields.v.records_length, << >>), LAMBDA records :
    Ok([base_offset |-> fields.v.base_offset, records |-> records.v], fields.rest)))

\* BTreeMap::insert(batch.base_offset, batch): the batch takes the place its
\* key has in the order, and the place of a batch already held under that key
BTreeMap_insert(batches, batch) ==
    SelectSeq(batches, LAMBDA b : b.base_offset < batch.base_offset)
    \o << batch >>
    \o SelectSeq(batches, LAMBDA b : b.base_offset > batch.base_offset)

\* The loop of ClusterMetadata::try_from: batches are read until one fails; a
\* failure of kind UnexpectedEof ends the loop with the batches read so far
RECURSIVE ClusterMetadata_loop(_, _)
ClusterMetadata_loop(bytes, batches) ==
    Let(Batch_try_from(bytes), LAMBDA batch :
        IF batch.st = "ok"
        THEN ClusterMetadata_loop(batch.rest, BTreeMap_insert(batches, batch.v))
        ELSE IF batch.st = "panic" THEN batch
        ELSE IF batch.v = "UnexpectedEof" THEN Ok(batches, << >>)
        ELSE Err("InvalidData"))

\* A file is [exists, readable, bytes]: whether File::open finds it, whether
\* read_to_end succeeds on it, and its contents
\* ClusterMetadata::try_from(file): read_to_end, then the loop
ClusterMetadata_try_from(file) ==
    IF ~file.readable THEN Err("InvalidData")
    ELSE ClusterMetadata_loop(file.bytes, << >>)

----------------------------------------------------------------------------
(* The partition log files read by Fetch *)

\* format!("{}", i32)
RECURSIVE DecimalDigits(_)
DecimalDigits(n) ==
    IF n < 10 THEN << 48 + n >> ELSE Append(DecimalDigits(n \div 10), 48 + (n % 10))

FormatI32(n) ==
    IF n >= 0 THEN DecimalDigits(n)
    ELSE IF n = MinI32 THEN << 45 >> \o DecimalDigits(214748364) \o << 56 >>
    ELSE << 45 >> \o DecimalDigits(-n)

\* format!("/tmp/kraft-combined-logs/{}-{}/00000000000000000000.log", topic_name,
\* partition_id): the path is determined by the directory name "{}-{}"
LogFilename(topic_name, partition_id) == topic_name \o << 45 >> \o FormatI32(partition_id)

\* The directories under /tmp/kraft-combined-logs that hold a log file: its
\* contents, and whether read_to_end on it succeeds
Disk ==
    { [dir |-> << 98, 97, 114, 45, 48 >>, bytes |-> << 1, 2, 3 >>, readable |-> TRUE],
      [dir |-> << 98, 97, 114, 45, 49 >>, bytes |-> << 4, 5 >>, readable |-> TRUE],
      [dir |-> << 98, 97, 122, 45, 48 >>, bytes |-> << >>, readable |-> FALSE] }

File_open(filename) ==
    IF \E f \in Disk : f.dir = filename
    THEN Ok(CHOOSE f \in Disk : f.dir = filename, << >>)
    ELSE Err("NotFound")

----------------------------------------------------------------------------
(* server_async.rs: the request handler of ServerAsync's Connection *)

build_api_versions_response(req) ==
    IF req.header.request_api_version >= 0 /\ req.header.request_api_version <= 4
    THEN ApiVersionsResponseBodyV4_new("None",
             << ApiVersion_new("ApiVersions", 0, 4, << >>),
                ApiVersion_new("DescribeTopicPartitions", 0, 0, << >>),
                ApiVersion_new("Fetch", 4, 16, << >>) >>,
             0, << >>)
    ELSE ApiVersionsResponseBodyV4_new("UnsupportedVersion", << >>, 0, << >>)

DescribeTopicPartitionsRequestV0_default ==
    [type |-> "DescribeTopicPartitionsRequestV0", topics |-> << >>,
     response_partiotion_limit |-> 0, cursor |-> 255, tag |-> << >>]

\* The closure build_describe_topic_partitions_response maps over topic_names
describe_topic(md, topic_name) ==
    Let(find_topic_records_by_topic(md, topic_name), LAMBDA topic_records :
        IF topic_records # << >>
        THEN Let(find_partition_records_by_topic_uuid(md, topic_records[1].topic_uuid),
                 LAMBDA partition_records :
                 Topic_new("None", topic_name, topic_records[1].topic_uuid, FALSE,
                           [i \in 1..Len(partition_records) |->
                               Partition_from(partition_records[i])],
                           0, << >>))
        ELSE Topic_from_unknown_topic(topic_name))

\* A mutant of build_describe_topic_partitions_response: only the first topic
\* name is answered
build_describe_topic_partitions_response_FirstOnly(md, req) ==
    Let(topic_names(IF req.body.type = "DescribeTopicPartitionsRequestV0" THEN req.body
                    ELSE DescribeTopicPartitionsRequestV0_default),
        LAMBDA names :
        DescribeTopicPartiotionsResponseBodyV0_new(
            0, [i \in 1..(IF names = << >> THEN 0 ELSE 1) |-> describe_topic(md, names[i])],
            255, << >>))

build_describe_topic_partitions_response(md, req) ==
    Let(topic_names(IF req.body.type = "DescribeTopicPartitionsRequestV0" THEN req.body
                    ELSE DescribeTopicPartitionsRequestV0_default),
        LAMBDA names :
        DescribeTopicPartiotionsResponseBodyV0_new(
            0, [i \in 1..Len(names) |-> describe_topic(md, names[i])], 255, << >>))

TopicsPartitions_default == [topic_id |-> NilUuid, partitions |-> << >>, tag |-> << >>]

FetchRequestV16_default ==
    [type |-> "FetchRequestV16", max_wait_ms |-> 500, min_bytes |-> 1,
     max_bytes |-> 1048576, isolation_level |-> 0, session_id |-> -1,
     session_epoch |-> -1, topics |-> << >>, forgotten_topics |-> << >>,
     rack_id |-> << >>]

\* `request.body().as_fetch_request_v16().unwrap_or(..).topics().to_vec().first()
\*  .unwrap_or(&TopicsPartitions::default()).topic_id()`
fetch_topic_id(req) ==
    Let(IF req.body.type = "FetchRequestV16" THEN req.body ELSE FetchRequestV16_default,
        LAMBDA body :
        IF body.topics # << >> THEN body.topics[1].topic_id
        ELSE TopicsPartitions_default.topic_id)

\* `match file`: the partition's log is read whole; read_to_end(..).unwrap()
\* panics when the read fails
fetch_log(topic_id, file) ==
    IF file.st # "ok" THEN Ok(FetchResponseBodyV16_empty_topic(topic_id), << >>)
    ELSE IF ~file.v.readable THEN Panic("read_to_end unwrap")
    ELSE Ok(FetchResponseBodyV16_with_record_for_topic(topic_id, file.v.bytes), << >>)

\* Returns Ok(body) or Panic
build_fetch_response(md, req) ==
    Let(fetch_topic_id(req), LAMBDA topic_id :
    IF topic_id = NilUuid THEN Ok(FetchResponseBodyV16_default, << >>) ELSE
    Let(find_topic_records_by_id(md, topic_id), LAMBDA topic_records :
    IF topic_records = << >>
    THEN Ok(FetchResponseBodyV16_unknown_topic(topic_id), << >>) ELSE
    Let(topic_records[1].name, LAMBDA topic_name :
    IF topic_name = << >>
    THEN Ok(FetchResponseBodyV16_empty_topic(topic_id), << >>) ELSE
    Let(find_partition_record_ids_by_topic_uuid(md, topic_id), LAMBDA partition_ids :
    IF partition_ids = << >>
    THEN Ok(FetchResponseBodyV16_empty_topic(topic_id), << >>)
    ELSE fetch_log(topic_id, File_open(LogFilename(topic_name, partition_ids[1])))))))

build_response_header(req) ==
    CASE req.header.request_api_key = "ApiVersions" ->
             ResponseHeaderV0_new(req.header.correlation_id)
      [] req.header.request_api_key = "DescribeTopicPartitions" ->
             ResponseHeaderV1_new(req.header.correlation_id)
      [] req.header.request_api_key = "Fetch" ->
             ResponseHeaderV1_new(req.header.correlation_id)

build_response_body(md, req) ==
    CASE req.header.request_api_key = "ApiVersions" ->
             Ok(build_api_versions_response(req), << >>)
      [] req.header.request_api_key = "DescribeTopicPartitions" ->
             Ok(build_describe_topic_partitions_response(md, req), << >>)
      [] req.header.request_api_key = "Fetch" -> build_fetch_response(md, req)

\* A mutant of ServerAsync_response: message_size leaves the header out
ServerAsync_response_BodyOnly(response_header, response_body) ==
    ResponseV0_new(Len(ResponseBody_to_be_bytes(response_body)),
                   response_header, response_body)

\* The frame build_response puts together: message_size is the length of the
\* encoded body plus the length of the encoded header
ServerAsync_response(response_header, response_body) ==
    ResponseV0_new(Len(ResponseBody_to_be_bytes(response_body))
                   + Len(ResponseHeader_to_be_bytes(response_header)),
                   response_header, response_body)

\* Connection::build_response of server_async.rs
ServerAsync_build_response(md, req) ==
    Try(build_response_body(md, req), LAMBDA response_body :
        Ok(ServerAsync_response(build_response_header(req), response_body.v), << >>))

----------------------------------------------------------------------------
(* server_sync.rs: the request handler of ServerSync's Connection *)

\* `let response_body = match request.header().request_api_version() { 0..=4 =>
\*  .., _ => .. }`
ServerSync_response_body(req) ==
    IF req.header.request_api_version >= 0 /\ req.header.request_api_version <= 4
    THEN ApiVersionsResponseBodyV4_new("None",
             << ApiVersion_new("ApiVersions", 0, 4, << >>),
                ApiVersion_new("DescribeTopicPartitions", 0, 0, << >>) >>,
             0, << >>)
    ELSE ApiVersionsResponseBodyV4_new("UnsupportedVersion", << >>, 0, << >>)

ServerSync_response(response_header, response_body) ==
    ResponseV0_new(Len(ApiVersionsResponseBodyV4_to_be_bytes(response_body))
                   + Len(ResponseHeaderV1_to_be_bytes(response_header)),
                   response_header, response_body)

\* Connection::build_response of server_sync.rs
ServerSync_build_response(req) ==
    Ok(ServerSync_response(ResponseHeaderV1_new(req.header.correlation_id),
                           ServerSync_response_body(req)), << >>)

----------------------------------------------------------------------------
(* The environment: the metadata logs the server may be started on, the      *)
(* clients and the segments they send                                         *)

\* Two clients, the least number whose connections can overlap
Clients == {1, 2}

NameFoo == << 102, 111, 111 >>

NameBar == << 98, 97, 114 >>

NameBaz == << 98, 97, 122 >>

NameQux == << 113, 117, 120 >>

PartitionRecord(partition_id, topic_uuid, leader) ==
    [type |-> "Partition", partition_id |-> partition_id, topic_uuid |-> topic_uuid,
     replica_array |-> << leader, leader + 1 >>, in_sync_replica_array |-> << leader >>,
     removing_replicas_array |-> << >>, adding_replicas_array |-> << >>,
     leader |-> leader, leader_epoch |-> leader + 4, partition_epoch |-> 0,
     directories_array |-> << >>, tagged_fields_count |-> 0]

TopicRecord(name, topic_uuid) ==
    [type |-> "Topic", name |-> name, topic_uuid |-> topic_uuid,
     tagged_fields_count |-> 0]

\* The indexes a successful ClusterMetadata::try_from may have produced
Indexes ==
    { << >>,
      << [base_offset |-> 0,
          records |-> << [type |-> "Feature", name |-> << 118 >>, feature_level |-> 20,
                          tagged_fields_count |-> 0],
                         TopicRecord(NameBar, Uuid(1)),
                         PartitionRecord(1, Uuid(1), 1) >>],
         [base_offset |-> 4,
          records |-> << PartitionRecord(0, Uuid(1), 1),
                         TopicRecord(NameBaz, Uuid(2)),
                         PartitionRecord(0, Uuid(2), 2),
                         [type |-> "Unknown", bytes |-> << 9 >>],
                         TopicRecord(NameQux, Uuid(3)),
                         PartitionRecord(0, Uuid(3), 3) >>] >> }

\* The value of a metadata record as Kafka writes it: frame_version, the
\* record type, version, then the fields of the type
WrittenRecordValue(value) ==
    CASE value.type = "Feature" ->
           << 1, 12, 0 >> \o CompactString_to_be_bytes(value.name)
           \o put_i16(value.feature_level)
           \o UnsignedVarInt_to_be_bytes(value.tagged_fields_count)
      [] value.type = "Topic" ->
           << 1, 2, 0 >> \o CompactString_to_be_bytes(value.name) \o value.topic_uuid
           \o UnsignedVarInt_to_be_bytes(value.tagged_fields_count)
      [] value.type = "Partition" ->
           << 1, 3, 0 >> \o put_i32(value.partition_id) \o value.topic_uuid
           \o CompactArray_to_be_bytes(INT32_to_be_bytes, value.replica_array)
           \o CompactArray_to_be_bytes(INT32_to_be_bytes, value.in_sync_replica_array)
           \o CompactArray_to_be_bytes(INT32_to_be_bytes, value.removing_replicas_array)
           \o CompactArray_to_be_bytes(INT32_to_be_bytes, value.adding_replicas_array)
           \o put_i32(value.leader) \o put_i32(value.leader_epoch)
           \o put_i32(value.partition_epoch)
           \o UnsignedVarInt_to_be_bytes(Len(value.directories_array) + 1)
           \o Concat(value.directories_array)
           \o UnsignedVarInt_to_be_bytes(value.tagged_fields_count)
      [] value.type = "Unknown" -> << 1, 5, 0 >> \o value.bytes

\* A record as Kafka writes it: its length, attributes, timestamp and offset
\* deltas, a null key, the length of the value and the value, no headers
WrittenRecord(value, offset_delta) ==
    Let(WrittenRecordValue(value), LAMBDA record_value :
    Let(<< 0 >> \o VarInt_to_be_bytes(0) \o VarInt_to_be_bytes(offset_delta)
        \o VarInt_to_be_bytes(-1)
        \o VarInt_to_be_bytes(Len(record_value)) \o record_value \o << 0 >>, LAMBDA record :
        VarInt_to_be_bytes(Len(record)) \o record))

\* The bytes of a batch the crc covers: attributes to the end of the records
WrittenBatchBody(records) ==
    << 0, 0 >> \o put_i32(Len(records) - 1) \o put_i64(0) \o put_i64(0)
    \o put_i64(-1) \o put_i16(-1) \o put_i32(-1) \o put_i32(Len(records))
    \o Concat([i \in 1..Len(records) |-> WrittenRecord(records[i], i - 1)])

\* A batch as Kafka writes it, crc being the crc it stores
WrittenBatchWithCrc(base_offset, crc, body) ==
    put_i64(base_offset) \o put_i32(9 + Len(body))
    \o put_i32(1) \o << 2 >> \o put_u32(crc) \o body

WrittenBatch(batch) ==
    Let(WrittenBatchBody(batch.records), LAMBDA body :
        WrittenBatchWithCrc(batch.base_offset, crc32c(body), body))

\* The metadata log Kafka writes for an index
WrittenLog(index) == Concat([i \in 1..Len(index) |-> WrittenBatch(index[i])])

\* A file that holds the bytes, and the file that is not there
FileOf(bytes) == [exists |-> TRUE, readable |-> TRUE, bytes |-> bytes]

NoFile == [exists |-> FALSE, readable |-> FALSE, bytes |-> << >>]

UnreadableFile == [exists |-> TRUE, readable |-> FALSE, bytes |-> << >>]

\* The metadata log files ServerAsync may be started on: none, the logs of the
\* indexes, one with a byte of a record changed, one cut inside a batch
MetadataLogs ==
    {NoFile}
    \cup {FileOf(WrittenLog(index)) : index \in Indexes}
    \cup {FileOf([WrittenLog(index) EXCEPT ![Len(WrittenLog(index))] = 1]) :
             index \in Indexes \ {<< >>}}
    \cup {FileOf(Take(WrittenLog(index), 40)) : index \in Indexes \ {<< >>}}

\* metadata before ServerAsync::new, and in ServerSync: log is the file the
\* index was loaded from
NoMetadata == [built |-> FALSE, batches |-> << >>, log |-> NoFile]

\* A request frame as a client writes it
ClientHeader(key, version, correlation_id) ==
    put_i16(key) \o put_i16(version) \o put_i32(correlation_id)
    \o NullableString_to_be_bytes(None) \o << 0 >>

ClientFrame(payload) == put_i32(Len(payload)) \o payload

ApiVersionsFrame(key, version, correlation_id) ==
    ClientFrame(ClientHeader(key, version, correlation_id)
                \o CompactString_to_be_bytes(<< 107 >>)
                \o CompactString_to_be_bytes(<< 49 >>) \o << 0 >>)

DescribeFrame(version, correlation_id, names) ==
    ClientFrame(ClientHeader(75, version, correlation_id)
                \o UnsignedVarInt_to_be_bytes(Len(names) + 1)
                \o Concat([i \in 1..Len(names) |->
                              CompactString_to_be_bytes(names[i]) \o << 0 >>])
                \o put_i32(1) \o << 255 >> \o << 0 >>)

FetchFrame(version, correlation_id, topic_id) ==
    ClientFrame(ClientHeader(1, version, correlation_id)
                \o put_i32(500) \o put_i32(1) \o put_i32(1024) \o << 0 >>
                \o put_i32(0) \o put_i32(0)
                \o << 2 >> \o topic_id \o << 2 >> \o put_i32(0) \o put_i32(-1)
                \o put_i64(0) \o put_i32(-1) \o put_i64(0) \o put_i32(1024) \o << 0 >>
                \o << 0 >>
                \o << 1 >> \o CompactString_to_be_bytes(<< >>))

\* A frame whose client_id announces 9 bytes and carries 2
TruncatedFrame(correlation_id) ==
    put_i32(12) \o put_i16(18) \o put_i16(4) \o put_i32(correlation_id)
    \o put_i16(9) \o << 107, 107 >>

\* Where a client's write may split a frame: inside the correlation_id
SplitAt == 10

\* What client c may send in one write: a whole frame, or the head or the tail
\* of one
Segments(c) ==
    { ApiVersionsFrame(18, 4, 1700 + c),
      ApiVersionsFrame(18, 99, -c),
      DescribeFrame(0, 7500 + c, << NameBar, NameFoo, NameBar >>),
      DescribeFrame(1, 7600 + c, << NameBaz >>),
      FetchFrame(16, 100 + c, Uuid(c)),
      FetchFrame(3, 300 + c, Uuid(2 + c)),
      ApiVersionsFrame(7, 0, 70 + c),
      TruncatedFrame(900 + c),
      Take(ApiVersionsFrame(18, 4, 1900 + c), SplitAt),
      Drop(ApiVersionsFrame(18, 4, 1900 + c), SplitAt) }

\* The correlation id in the bytes of a request frame, as its sender wrote it
SentCorrelationId(frame) == BESigned(SubSeq(frame, 9, 12))

\* Capacity of the buffer of one socket read
ReadBufSize == 1024

NoRequest == [type |-> "none"]

----------------------------------------------------------------------------
(* The program *)

Init ==
    /\ server \in {"ServerAsync", "ServerSync"}
    /\ metadata = NoMetadata
    /\ run = "start"
    /\ backlog = << >>
    /\ peer = [c \in Clients |-> "idle"]
    /\ inbox = [c \in Clients |-> << >>]
    /\ sent = 0
    /\ pc = [c \in Clients |-> "none"]
    /\ request = [c \in Clients |-> NoRequest]
    /\ response = [c \in Clients |-> NoRequest]
    /\ decoded = [c \in Clients |-> << >>]
    /\ outbox = [c \in Clients |-> << >>]
    /\ lastRead = [c \in Clients |-> << >>]
    /\ exit = [c \in Clients |-> "none"]

conn_vars == << pc, request, response, decoded, outbox, lastRead, exit >>

client_vars == << peer, inbox, sent >>

\* A mutant of ServerAsync_new: the server is built without its index
ServerAsync_new_NoIndex ==
    /\ run = "start" /\ server = "ServerAsync"
    /\ run' = "built"
    /\ UNCHANGED << server, metadata, backlog, client_vars, conn_vars >>

\* File::open(..).and_then(ClusterMetadata::try_from)
ServerAsync_open(file) ==
    IF ~file.exists THEN Err("NotFound") ELSE ClusterMetadata_try_from(file)

\* ServerAsync::new on the metadata log `file`: the log is opened and parsed;
\* an Err makes new return Err, a panic unwinds out of new
ServerAsync_new_on(file) ==
    /\ run = "start" /\ server = "ServerAsync"
    /\ \E md \in {ServerAsync_open(file)} :
           /\ metadata' = [built |-> md.st = "ok",
                           batches |-> IF md.st = "ok" THEN md.v ELSE << >>,
                           log |-> file]
           /\ run' = CASE md.st = "ok" -> "built"
                       [] md.st = "err" -> "failed"
                       [] OTHER -> "panicked"
    /\ UNCHANGED << server, backlog, client_vars, conn_vars >>

\* ServerAsync::new; ServerSync::new holds no metadata
ServerAsync_new == \E file \in MetadataLogs : ServerAsync_new_on(file)

ServerSync_new ==
    /\ run = "start" /\ server = "ServerSync"
    /\ run' = "built"
    /\ UNCHANGED << server, metadata, backlog, client_vars, conn_vars >>

\* run: TcpListener::bind(..)?
Bind ==
    /\ run = "built"
    /\ \/ run' = "listening"
       \/ run' = "returned"
    /\ UNCHANGED << server, metadata, backlog, client_vars, conn_vars >>

ListenerOpen == run \in {"listening", "handling"}

ClientConnect(c) ==
    /\ ListenerOpen /\ peer[c] = "idle"
    /\ peer' = [peer EXCEPT ![c] = "open"]
    /\ backlog' = Append(backlog, c)
    /\ UNCHANGED << server, metadata, run, inbox, sent, conn_vars >>

ClientSend(c) ==
    /\ peer[c] = "open" /\ sent < MaxSends
    /\ \E seg \in Segments(c) : inbox' = [inbox EXCEPT ![c] = @ \o seg]
    /\ sent' = sent + 1
    /\ UNCHANGED << server, metadata, run, backlog, peer, conn_vars >>

ClientClose(c) ==
    /\ peer[c] = "open"
    /\ peer' = [peer EXCEPT ![c] = "closed"]
    /\ UNCHANGED << server, metadata, run, backlog, inbox, sent, conn_vars >>

ClientReset(c) ==
    /\ peer[c] = "open"
    /\ peer' = [peer EXCEPT ![c] = "reset"]
    /\ UNCHANGED << server, metadata, run, backlog, inbox, sent, conn_vars >>

\* run waits in listener.accept() and a connection is there to be returned
AcceptReturns == run = "listening" /\ backlog # << >>

\* run: listener.accept() returns Ok, Connection::new succeeds.  ServerAsync
\* spawns conn.handle() and loops; ServerSync calls conn.handle() in the loop.
AcceptOk ==
    /\ AcceptReturns
    /\ LET c == Head(backlog)
       IN  /\ pc' = [pc EXCEPT ![c] = "read"]
           /\ run' = IF server = "ServerSync" THEN "handling" ELSE "listening"
    /\ backlog' = Tail(backlog)
    /\ UNCHANGED << server, metadata, client_vars, request, response, decoded,
                    outbox, lastRead, exit >>

\* run: listener.accept() returns Ok and `Connection::new(..)?` returns the
\* error of stream.peer_addr(), which fails on a connection its peer aborted
AcceptNewFails ==
    /\ AcceptReturns
    /\ LET c == Head(backlog)
       IN  /\ peer[c] = "reset"
           /\ pc' = [pc EXCEPT ![c] = "refused"]
           /\ exit' = [exit EXCEPT ![c] = "peer_addr"]
    /\ run' = "returned"
    /\ backlog' = Tail(backlog)
    /\ UNCHANGED << server, metadata, client_vars, request, response, decoded,
                    outbox, lastRead >>

\* run: listener.accept() returns Err (a connection aborted while queued); the
\* error is printed and the loop goes on
AcceptErr ==
    /\ AcceptReturns
    /\ LET c == Head(backlog)
       IN  /\ peer[c] = "reset"
           /\ pc' = [pc EXCEPT ![c] = "refused"]
           /\ exit' = [exit EXCEPT ![c] = "accept"]
    /\ backlog' = Tail(backlog)
    /\ UNCHANGED << server, metadata, run, client_vars, request, response, decoded,
                    outbox, lastRead >>

\* The task of client c may take a step: a spawned task of ServerAsync always,
\* the one connection ServerSync's run is handling
Scheduled(c) == server = "ServerAsync" \/ run = "handling"

\* handle returns: ServerSync's run goes back to accept
RunAfterReturn == IF server = "ServerSync" THEN "listening" ELSE run

\* handle panics: a spawned task of ServerAsync ends alone; in ServerSync the
\* panic unwinds run
RunAfterPanic == IF server = "ServerSync" THEN "panicked" ELSE run

Connection_build_response(req) ==
    IF server = "ServerAsync" THEN ServerAsync_build_response(metadata.batches, req)
    ELSE ServerSync_build_response(req)

\* The task of client c waits in the read of read_request, and the read returns:
\* bytes; or nothing, the peer having closed, or an error, the peer having reset
Reading(c) == pc[c] = "read" /\ Scheduled(c)

ReadReturnsBytes(c) == Reading(c) /\ peer[c] # "reset" /\ inbox[c] # << >>

ReadReturnsNone(c) ==
    Reading(c) /\ (peer[c] = "reset" \/ (peer[c] = "closed" /\ inbox[c] = << >>))

\* The task of client c is in write_response
Writing(c) == pc[c] = "write" /\ Scheduled(c)

\* handle: read_request returns Err (the read returned 0 bytes or failed)
ReadFails(c) ==
    /\ ReadReturnsNone(c)
    /\ exit' = [exit EXCEPT ![c] = IF peer[c] = "reset" THEN "read error" ELSE "closed"]
    /\ pc' = [pc EXCEPT ![c] = "done"]
    /\ lastRead' = [lastRead EXCEPT ![c] = << >>]
    /\ run' = RunAfterReturn
    /\ UNCHANGED << server, metadata, backlog, client_vars, request, response,
                    decoded, outbox >>

\* handle, after read_request: the response of the decoded request is built;
\* a decode error makes handle return, a panic ends the task
Handle(c, buf, req, resp) ==
    IF resp.st = "ok"
    THEN /\ request' = [request EXCEPT ![c] = req.v]
         /\ response' = [response EXCEPT ![c] = resp.v]
         /\ decoded' = [decoded EXCEPT ![c] = Append(@, SentCorrelationId(buf))]
         /\ pc' = [pc EXCEPT ![c] = "write"]
         /\ UNCHANGED << run, exit >>
    ELSE IF resp.st = "err"
    THEN /\ pc' = [pc EXCEPT ![c] = "done"]
         /\ exit' = [exit EXCEPT ![c] = resp.v]
         /\ run' = RunAfterReturn
         /\ UNCHANGED << request, response, decoded >>
    ELSE /\ pc' = [pc EXCEPT ![c] = "panicked"]
         /\ exit' = [exit EXCEPT ![c] = resp.v]
         /\ run' = RunAfterPanic
         /\ UNCHANGED << request, response, decoded >>

\* read_request: RequestV0::from_be_bytes on the n bytes one read returned
Decode(c, buf, req) ==
    Handle(c, buf, req, IF req.st = "ok" THEN Connection_build_response(req.v) ELSE req)

\* handle: read_request reads once into a fresh buffer and decodes what it read,
\* then handle builds the response of the decoded request
ReadRequest(c) ==
    /\ ReadReturnsBytes(c)
    /\ \E n \in {IF Len(inbox[c]) < ReadBufSize THEN Len(inbox[c]) ELSE ReadBufSize} :
          /\ inbox' = [inbox EXCEPT ![c] = Drop(@, n)]
          /\ lastRead' = [lastRead EXCEPT ![c] = Take(inbox[c], n)]
          /\ Decode(c, Take(inbox[c], n), RequestV0_from_be_bytes(Take(inbox[c], n)))
    /\ UNCHANGED << server, metadata, backlog, peer, sent, outbox >>

\* A mutant of WriteResponse: the task goes on without having written
WriteResponse_Skipped(c) ==
    /\ Writing(c) /\ peer[c] # "reset"
    /\ pc' = [pc EXCEPT ![c] = "read"]
    /\ UNCHANGED << server, metadata, run, backlog, client_vars, request, response,
                    decoded, outbox, lastRead, exit >>

\* handle: write_response writes the whole frame and flushes, then handle loops
WriteResponse(c) ==
    /\ Writing(c) /\ peer[c] # "reset"
    /\ outbox' = [outbox EXCEPT ![c] = Append(@, ResponseV0_to_be_bytes(response[c]))]
    /\ pc' = [pc EXCEPT ![c] = "read"]
    /\ UNCHANGED << server, metadata, run, backlog, client_vars, request, response,
                    decoded, lastRead, exit >>

\* handle: write_response returns Err
WriteFails(c) ==
    /\ Writing(c) /\ peer[c] = "reset"
    /\ pc' = [pc EXCEPT ![c] = "done"]
    /\ exit' = [exit EXCEPT ![c] = "write error"]
    /\ run' = RunAfterReturn
    /\ UNCHANGED << server, metadata, backlog, client_vars, request, response,
                    decoded, outbox, lastRead >>

Next ==
    \/ ServerAsync_new
    \/ ServerSync_new
    \/ Bind
    \/ AcceptOk
    \/ AcceptNewFails
    \/ AcceptErr
    \/ \E c \in Clients : ClientConnect(c)
    \/ \E c \in Clients : ClientSend(c)
    \/ \E c \in Clients : ClientClose(c)
    \/ \E c \in Clients : ClientReset(c)
    \/ \E c \in Clients : ReadFails(c)
    \/ \E c \in Clients : ReadRequest(c)
    \/ \E c \in Clients : WriteResponse(c)
    \/ \E c \in Clients : WriteFails(c)

Spec == Init /\ [][Next]_vars

----------------------------------------------------------------------------
(* What a client reads off its connection *)

\* The message_size field of a written frame
FrameMessageSize(frame) == BESigned(SubSeq(frame, 1, 4))

\* The correlation_id of a written frame: the first field of both header versions
FrameCorrelationId(frame) == BESigned(SubSeq(frame, 5, 8))

\* The api key and the api version in the bytes of a request frame, as its sender
\* wrote them
SentApiKey(frame) == BESigned(SubSeq(frame, 5, 6))

SentApiVersion(frame) == BESigned(SubSeq(frame, 7, 8))

\* The server can take a step, of run's accept loop or of a connection's handle,
\* without any client doing anything
ServerCanStep ==
    \/ AcceptReturns
    \/ \E c \in Clients : ReadReturnsBytes(c) \/ ReadReturnsNone(c) \/ Writing(c)

\* The ways RequestV0::from_be_bytes fails: the errors it returns and the
\* panics of the calls it makes
DecodeErrors == {"TryGetError", "IoError", "UnsupportedApiKey"}

DecodePanics == {"copy_to_slice", "capacity overflow", "subtract with overflow"}

----------------------------------------------------------------------------
(* Properties *)

\* C1: every response written on a connection carries the correlation_id of the
\* request it answers: the k-th frame written to a client carries the
\* correlation_id the client sent in the k-th request decoded on its connection,
\* and the response built for the request being handled carries that request's.
C1_CorrelationIdEchoed ==
    \A c \in Clients :
        /\ \A k \in 1..Len(outbox[c]) :
              /\ k <= Len(decoded[c])
              /\ FrameCorrelationId(outbox[c][k]) = decoded[c][k]
        /\ pc[c] = "write" =>
              /\ response[c].header.correlation_id = SentCorrelationId(lastRead[c])
              /\ FrameCorrelationId(ResponseV0_to_be_bytes(response[c]))
                     = SentCorrelationId(lastRead[c])

\* A client got two responses, with the two different correlation ids it sent
C1_Witness ==
    \E c \in Clients :
        /\ Len(outbox[c]) = 2
        /\ FrameCorrelationId(outbox[c][1]) = -c
        /\ FrameCorrelationId(outbox[c][2]) = 7500 + c

C3_NoClientWaitsForAnother ==
    \A c \in Clients :
        ( /\ ListenerOpen
          /\ peer[c] = "open" /\ inbox[c] # << >>
          /\ pc[c] \in {"none", "read", "write"} )
        => ServerCanStep

\* C4: a decode failure on one connection ends only that connection's task: in
\* the step in which the decoding of a client's request fails, an open listener
\* stays open and the task of every other client stays where it is.
C4_DecodeFailureEndsOnlyItsTask ==
    [][\A c \in Clients :
          (exit[c] = "none" /\ exit'[c] \in DecodeErrors \cup DecodePanics)
          => /\ pc'[c] \in {"done", "panicked"}
             /\ (ListenerOpen => run' \in {"listening", "handling"})
             /\ \A d \in Clients \ {c} : pc'[d] = pc[d] /\ exit'[d] = exit[d]]_vars

\* C5: once the listener is bound the accept loop never stops: no step makes run
\* return or unwind.
C5_AcceptLoopNeverStops ==
    [][ListenerOpen => run' \in {"listening", "handling"}]_vars

\* C6: a request whose api key is none of 1, 18, 75 makes the decoding fail with
\* the unsupported-api-key error: the task has returned with that error and the
\* frames written are those of the requests decoded before.
C6_UnsupportedApiKeyEndsTask ==
    \A c \in Clients :
        ( /\ Len(lastRead[c]) >= 6
          /\ SentApiKey(lastRead[c])
                 \notin {FetchKey, ApiVersionsKey, DescribeTopicPartitionsKey} )
        => /\ pc[c] = "done"
           /\ exit[c] = "UnsupportedApiKey"
           /\ Len(outbox[c]) = Len(decoded[c])

\* A task that answered one request and then ended on a request of api key 7
C6_Witness ==
    \E c \in Clients :
        /\ Len(lastRead[c]) >= 6 /\ SentApiKey(lastRead[c]) = 7
        /\ pc[c] = "done" /\ exit[c] = "UnsupportedApiKey"
        /\ Len(outbox[c]) = 1

\* C7: the response built for a request is of the API the request named.
C7_ResponseOfTheRequestedApi ==
    \A c \in Clients :
        pc[c] = "write" =>
            response[c].body.type =
                CASE SentApiKey(lastRead[c]) = ApiVersionsKey -> "ApiVersionsResponseV4"
                  [] SentApiKey(lastRead[c]) = DescribeTopicPartitionsKey ->
                         "DescribeTopicPartiotionsResponseV0"
                  [] SentApiKey(lastRead[c]) = FetchKey -> "FetchResponseV16"

\* C8: the message_size at the start of every written frame is the number of
\* bytes that follow it, and the message_size of the response being handled is
\* the length of its encoded header plus the length of its encoded body.
C8_MessageSizeIsHeaderPlusBody ==
    \A c \in Clients :
        /\ \A k \in 1..Len(outbox[c]) :
              FrameMessageSize(outbox[c][k]) = Len(outbox[c][k]) - 4
        /\ pc[c] = "write" =>
              response[c].message_size =
                  Len(ResponseHeader_to_be_bytes(response[c].header))
                  + Len(ResponseBody_to_be_bytes(response[c].body))

\* ServerAsync has written a client two frames of different sizes
C8_Witness ==
    \E c \in Clients :
        /\ server = "ServerAsync"
        /\ Len(outbox[c]) = 2
        /\ FrameMessageSize(outbox[c][1]) # FrameMessageSize(outbox[c][2])
        /\ FrameMessageSize(outbox[c][2]) > 40

\* C9: ServerAsync's index is built before run listens, hence before any
\* connection is accepted, and once built no step changes it.
C9_IndexBuiltOnceThenUnchanged ==
    /\ []((server = "ServerAsync" /\ (ListenerOpen \/ \E c \in Clients : pc[c] # "none"))
            => metadata.built)
    /\ [][metadata.built => metadata' = metadata]_vars

\* ServerAsync, on a non-empty index, has answered two requests of a client
C9_Witness ==
    \E c \in Clients :
        /\ server = "ServerAsync"
        /\ metadata.built /\ metadata.batches # << >>
        /\ Len(outbox[c]) = 2

\* The encoded ApiVersions body the spec prescribes for a request_api_version
ApiVersionsBodyFor(version) ==
    IF version >= 0 /\ version <= 4
    THEN << 0, 0 >> \o << 4 >>
         \o << 0, 18, 0, 0, 0, 4, 0 >>
         \o << 0, 75, 0, 0, 0, 0, 0 >>
         \o << 0, 1, 0, 4, 0, 16, 0 >>
         \o << 0, 0, 0, 0 >> \o << 0 >>
    ELSE << 0, 35 >> \o << 0 >> \o << 0, 0, 0, 0 >> \o << 0 >>

\* C10: an ApiVersions request of version 0..4 gets error_code 0 and the three
\* entries (18,0,4), (75,0,0), (1,4,16); of any other version error_code 35 and
\* no entry; throttle_time_ms is 0 in both cases.
C10_ApiVersionsResponse ==
    \A c \in Clients :
        (pc[c] = "write" /\ SentApiKey(lastRead[c]) = ApiVersionsKey)
        => ResponseBody_to_be_bytes(response[c].body)
               = ApiVersionsBodyFor(SentApiVersion(lastRead[c]))

\* C11: an ApiVersions response is framed with response header v0, the
\* correlation_id alone, and a DescribeTopicPartitions or Fetch response with
\* response header v1, the correlation_id followed by the tag-buffer byte 0x00.
C11_HeaderVersionOfTheApi ==
    \A c \in Clients :
        pc[c] = "write" =>
            ResponseHeader_to_be_bytes(response[c].header) =
                IF SentApiKey(lastRead[c]) = ApiVersionsKey
                THEN put_i32(SentCorrelationId(lastRead[c]))
                ELSE put_i32(SentCorrelationId(lastRead[c])) \o << 0 >>

\* The versions of an API the server supports, as the spec lists them
VersionSupported(key, version) ==
    CASE key = ApiVersionsKey -> version >= 0 /\ version <= 4
      [] key = DescribeTopicPartitionsKey -> version = 0
      [] key = FetchKey -> version >= 4 /\ version <= 16

\* The error_code fields of a response body, at every level
ErrorCodesOf(body) ==
    CASE body.type = "ApiVersionsResponseV4" -> {body.error_code}
      [] body.type = "DescribeTopicPartiotionsResponseV0" ->
             {body.topics[i].error_code : i \in 1..Len(body.topics)}
      [] body.type = "FetchResponseV16" ->
             {body.error_code}
             \cup UNION {{t.partitions[j].error_code : j \in 1..Len(t.partitions)} :
                         t \in {body.responses[i] : i \in 1..Len(body.responses)}}

\* The last read of client c holds a request of a known API in a version the
\* server does not support for it
UnsupportedVersionRead(c) ==
    /\ Len(lastRead[c]) >= 12
    /\ SentApiKey(lastRead[c]) \in {FetchKey, ApiVersionsKey, DescribeTopicPartitionsKey}
    /\ ~VersionSupported(SentApiKey(lastRead[c]), SentApiVersion(lastRead[c]))

\* C12: a request of a known API in a version outside the supported range is
\* decoded, and the response built for it carries error_code UnsupportedVersion.
C12_UnsupportedVersionInBody ==
    \A c \in Clients :
        UnsupportedVersionRead(c) =>
            /\ exit[c] \notin DecodeErrors \cup DecodePanics
            /\ pc[c] = "write" => "UnsupportedVersion" \in ErrorCodesOf(response[c].body)

\* The topic names of the DescribeTopicPartitions request in a frame, in the
\* order its sender wrote them
SentTopicNames(frame) ==
    topic_names(RequestV0_from_be_bytes(frame).v.body)

\* The last read of client c holds a DescribeTopicPartitions request, decoded,
\* and a DescribeTopicPartitions response is about to be written for it
DescribeAnswered(c) ==
    /\ pc[c] = "write"
    /\ SentApiKey(lastRead[c]) = DescribeTopicPartitionsKey
    /\ response[c].body.type = "DescribeTopicPartiotionsResponseV0"

\* C13: a DescribeTopicPartitions response holds one TopicResult per topic name
\* of the request, in the order of the request, duplicates included, each with
\* the requested name; throttle_time_ms is 0 and next_cursor is 0xFF.
C13_OneTopicResultPerName ==
    \A c \in Clients :
        DescribeAnswered(c) =>
            /\ Len(response[c].body.topics) = Len(SentTopicNames(lastRead[c]))
            /\ \A i \in 1..Len(response[c].body.topics) :
                  response[c].body.topics[i].name = SentTopicNames(lastRead[c])[i]
            /\ response[c].body.throttle_time_ms = 0
            /\ response[c].body.next_cursor = 255
            /\ SubSeq(ResponseBody_to_be_bytes(response[c].body), 1, 5)
                   = << 0, 0, 0, 0, Len(SentTopicNames(lastRead[c])) + 1 >>

\* ServerAsync answers a request naming bar, foo and bar again
C13_Witness ==
    \E c \in Clients :
        /\ DescribeAnswered(c)
        /\ metadata.batches # << >>
        /\ SentTopicNames(lastRead[c]) = << NameBar, NameFoo, NameBar >>
        /\ Len(response[c].body.topics) = 3

\* The records of every batch of the index
IndexRecords ==
    UNION {{metadata.batches[b].records[r] : r \in 1..Len(metadata.batches[b].records)} :
           b \in 1..Len(metadata.batches)}

\* The topic records of the index that carry a name
TopicRecordsNamed(name) == {r \in IndexRecords : r.type = "Topic" /\ r.name = name}

\* C14: for a requested name that no topic record of the index carries, the
\* TopicResult has error_code 3, the requested name, the nil UUID, is_internal 0,
\* no partitions and authorized_operations 0, whatever else the index holds.
C14_UnknownTopicResult ==
    \A c \in Clients :
        DescribeAnswered(c) =>
            \A i \in 1..Len(response[c].body.topics) :
                TopicRecordsNamed(SentTopicNames(lastRead[c])[i]) = {} =>
                    /\ ErrorCode_as_i16(response[c].body.topics[i].error_code) = 3
                    /\ response[c].body.topics[i].name = SentTopicNames(lastRead[c])[i]
                    /\ response[c].body.topics[i].id = [k \in 1..16 |-> 0]
                    /\ response[c].body.topics[i].is_internal = FALSE
                    /\ response[c].body.topics[i].partitions = << >>
                    /\ response[c].body.topics[i].authorized_operations = 0

\* foo, which no record names, is answered from an index that holds features,
\* partitions, an unknown record and topics of other names
C14_Witness ==
    \E c \in Clients :
        /\ DescribeAnswered(c)
        /\ Len(response[c].body.topics) = 3
        /\ SentTopicNames(lastRead[c])[2] = NameFoo
        /\ TopicRecordsNamed(NameFoo) = {} /\ TopicRecordsNamed(NameBar) # {}
        /\ {r.type : r \in IndexRecords} = {"Feature", "Topic", "Partition", "Unknown"}
        /\ response[c].body.topics[2].error_code = "UnknownTopicOrPartition"

\* The partition records of the index that carry a topic uuid, from any batch
PartitionRecordsOf(topic_uuid) ==
    {r \in IndexRecords : r.type = "Partition" /\ r.topic_uuid = topic_uuid}

\* A PartitionResult carries a partition record verbatim
PartitionResultOf(p, r) ==
    /\ p.partition_index = r.partition_id
    /\ p.leader = r.leader /\ p.leader_epoch = r.leader_epoch
    /\ p.replica_nodes = r.replica_array /\ p.isr_nodes = r.in_sync_replica_array
    /\ ErrorCode_as_i16(p.error_code) = 0
    /\ p.eligible_leader_replicas = 0 /\ p.last_known_elr = 0 /\ p.offline_replicas = 0

\* A TopicResult is that of a topic record: error_code 0, the record's UUID and
\* one PartitionResult per partition record of that UUID
TopicResultOf(t, rec) ==
    /\ ErrorCode_as_i16(t.error_code) = 0
    /\ t.id = rec.topic_uuid
    /\ Len(t.partitions) = Cardinality(PartitionRecordsOf(rec.topic_uuid))
    /\ \A r \in PartitionRecordsOf(rec.topic_uuid) :
          \E j \in 1..Len(t.partitions) : PartitionResultOf(t.partitions[j], r)
    /\ \A j \in 1..Len(t.partitions) :
          \E r \in PartitionRecordsOf(rec.topic_uuid) : PartitionResultOf(t.partitions[j], r)

\* C15: for a requested name that a topic record carries, the TopicResult has
\* error_code 0 and that record's UUID, and its partitions are the partition
\* records of that UUID, of every batch and of no other UUID, each verbatim and
\* with eligible_leader_replicas, last_known_elr and offline_replicas 0.
C15_KnownTopicResult ==
    \A c \in Clients :
        DescribeAnswered(c) =>
            \A i \in 1..Len(response[c].body.topics) :
                \A rec \in TopicRecordsNamed(SentTopicNames(lastRead[c])[i]) :
                    TopicResultOf(response[c].body.topics[i], rec)

\* bar is answered with its two partitions, which lie in two batches, other
\* topics' partitions lying between them
C15_Witness ==
    \E c \in Clients :
        /\ DescribeAnswered(c)
        /\ SentTopicNames(lastRead[c])[1] = NameBar
        /\ TopicRecordsNamed(NameBar) # {}
        /\ Len(response[c].body.topics[1].partitions) = 2
        /\ response[c].body.topics[1].partitions[1].partition_index = 1
        /\ response[c].body.topics[1].partitions[2].partition_index = 0
        /\ response[c].body.topics[1].partitions[1].replica_nodes = << 1, 2 >>
        /\ PartitionRecordsOf(Uuid(2)) # {}

\* The topic_id of the first topic of the Fetch request in a frame, as its
\* sender wrote it: the header with a null client_id takes 11 bytes, the body's
\* fields before the topics array 21 and the array's length prefix 1
SentFetchTopicId(frame) == SubSeq(frame, 38, 53)

\* The last read of client c of ServerAsync holds a Fetch request
FetchRead(c) ==
    /\ server = "ServerAsync"
    /\ Len(lastRead[c]) >= 53
    /\ SentApiKey(lastRead[c]) = FetchKey

\* ... and its response is about to be written
FetchAnswered(c) == FetchRead(c) /\ pc[c] = "write"

\* The topic records of the index that carry a topic uuid
TopicRecordsWithId(topic_id) ==
    {r \in IndexRecords : r.type = "Topic" /\ r.topic_uuid = topic_id}

\* A Fetch response body holds one topic entry, of a topic id, with one
\* partition entry, of an error code and records; its own error_code is 0
OneFetchPartition(body, topic_id, error_code, records) ==
    /\ body.type = "FetchResponseV16"
    /\ ErrorCode_as_i16(body.error_code) = 0
    /\ Len(body.responses) = 1
    /\ body.responses[1].topic_id = topic_id
    /\ Len(body.responses[1].partitions) = 1
    /\ ErrorCode_as_i16(body.responses[1].partitions[1].error_code) = error_code
    /\ body.responses[1].partitions[1].records = records

\* C16: a Fetch request whose first topic has a non-nil topic_id that no topic
\* record carries gets one topic entry for that id with one partition entry of
\* error_code 100 and empty records; the top-level error_code is 0.
C16_FetchUnknownTopic ==
    \A c \in Clients :
        ( /\ FetchAnswered(c)
          /\ SentFetchTopicId(lastRead[c]) # [k \in 1..16 |-> 0]
          /\ TopicRecordsWithId(SentFetchTopicId(lastRead[c])) = {} )
        => OneFetchPartition(response[c].body, SentFetchTopicId(lastRead[c]), 100, << >>)

\* A topic id that the populated index does not hold is fetched
C16_Witness ==
    \E c \in Clients :
        /\ FetchAnswered(c)
        /\ metadata.batches # << >>
        /\ SentFetchTopicId(lastRead[c]) = Uuid(4)
        /\ response[c].body.responses[1].partitions[1].error_code = "UnknownTopic"

\* The partition ids of the partition records of a topic uuid, in the order of
\* the index: batch by batch, record by record
RECURSIVE PartitionIdsIn(_, _)
PartitionIdsIn(records, topic_uuid) ==
    IF records = << >> THEN << >>
    ELSE (IF records[1].type = "Partition" /\ records[1].topic_uuid = topic_uuid
          THEN << records[1].partition_id >> ELSE << >>)
         \o PartitionIdsIn(Tail(records), topic_uuid)

PartitionIdsOf(topic_uuid) ==
    PartitionIdsIn(Concat([b \in 1..Len(metadata.batches) |-> metadata.batches[b].records]),
                   topic_uuid)

\* The log files a Fetch of a topic id reads: those of the directory
\* {topic_name}-{first partition id}, for a topic record of that id with a
\* name and a partition record
LogFilesOf(topic_id) ==
    {f \in Disk :
        \E t \in TopicRecordsWithId(topic_id) :
            /\ t.name # << >>
            /\ PartitionIdsOf(topic_id) # << >>
            /\ f.dir = t.name \o << 45 >> \o FormatI32(PartitionIdsOf(topic_id)[1])}

\* C17: a Fetch request whose first topic id is carried by a topic record with a
\* name, for which a partition record exists, gets one topic entry for that id
\* with one partition entry of error_code 0 whose records are the whole contents
\* of the log file of {topic_name}-{first partition id}.
C17_FetchReturnsTheLogFile ==
    \A c \in Clients :
        FetchRead(c) =>
            \A f \in LogFilesOf(SentFetchTopicId(lastRead[c])) :
                f.readable =>
                    /\ pc[c] # "panicked"
                    /\ pc[c] = "write" =>
                           OneFetchPartition(response[c].body,
                                             SentFetchTopicId(lastRead[c]), 0, f.bytes)

\* bar, whose first partition record has id 1, is fetched: the records are the
\* contents of bar-1, not those of bar-0
C17_Witness ==
    \E c \in Clients :
        /\ FetchAnswered(c)
        /\ SentFetchTopicId(lastRead[c]) = Uuid(1)
        /\ PartitionIdsOf(Uuid(1)) = << 1, 0 >>
        /\ response[c].body.responses[1].partitions[1].records = << 4, 5 >>

\* A Fetch of a topic id reaches a log file that cannot be opened or cannot be
\* read to its end: the topic has a name and a partition record, and the
\* directory {topic_name}-{first partition id} holds no file or one whose read
\* fails
LogFileFails(topic_id) ==
    /\ \E t \in TopicRecordsWithId(topic_id) : t.name # << >>
    /\ PartitionIdsOf(topic_id) # << >>
    /\ \A f \in LogFilesOf(topic_id) : ~f.readable

\* C18: when the partition log file of a Fetch cannot be opened, or is opened and
\* cannot be read to its end, the task does not end on it and the response built
\* is a Fetch response with one partition entry of error_code 0 and empty
\* records.
C18_FetchFileErrorsAreNotFatal ==
    \A c \in Clients :
        (FetchRead(c) /\ LogFileFails(SentFetchTopicId(lastRead[c]))) =>
            /\ pc[c] # "panicked"
            /\ exit[c] \in {"none", "closed", "read error", "write error"}
            /\ pc[c] = "write" =>
                   OneFetchPartition(response[c].body, SentFetchTopicId(lastRead[c]),
                                     0, << >>)

\* The same for the files that cannot be opened only
C18_OpenFailureOnly ==
    \A c \in Clients :
        ( /\ FetchRead(c) /\ LogFileFails(SentFetchTopicId(lastRead[c]))
          /\ LogFilesOf(SentFetchTopicId(lastRead[c])) = {} ) =>
            /\ pc[c] # "panicked"
            /\ pc[c] = "write" =>
                   OneFetchPartition(response[c].body, SentFetchTopicId(lastRead[c]),
                                     0, << >>)

\* The bytes of a read end inside a frame: fewer than the 4 + message_size bytes
\* of the frame they start
PartOfAFrame(buf) ==
    buf # << >> /\ (Len(buf) < 4 \/ Len(buf) < 4 + BESigned(SubSeq(buf, 1, 4)))

\* C19: a read that returns only part of a frame never ends the connection: the
\* request is decoded when its 4 + message_size bytes have arrived, not before.
C19_PartialFrameIsNotDecoded ==
    \A c \in Clients :
        PartOfAFrame(lastRead[c]) =>
            /\ exit[c] \notin DecodeErrors \cup DecodePanics
            /\ pc[c] \notin {"done", "panicked"} \/ exit[c] \in {"closed", "read error"}

\* What ends a connection's task according to the spec: a read that returns no
\* bytes (the peer closed, or the read failed on a connection the peer reset), a
\* request that fails to decode, a write that fails
TaskEndEvents == {"closed", "read error", "write error"} \cup DecodeErrors \cup DecodePanics

\* C20: a connection's task ends exactly when a read returns no bytes, a request
\* fails to decode or a write fails; an ended task writes nothing more and stays
\* ended; a task that has written a response goes back to reading.
C20_TaskEndsOnlyOnItsEvents ==
    [][\A c \in Clients :
          /\ (pc[c] \in {"read", "write"} /\ pc'[c] \notin {"read", "write"})
                 => (pc'[c] \in {"done", "panicked"} /\ exit'[c] \in TaskEndEvents)
          /\ (exit[c] = "none" /\ exit'[c] \in TaskEndEvents)
                 => pc'[c] \in {"done", "panicked"}
          /\ pc[c] \in {"done", "panicked"}
                 => (pc'[c] = pc[c] /\ outbox'[c] = outbox[c])
          /\ (pc[c] = "write" /\ outbox'[c] # outbox[c]) => pc'[c] = "read"]_vars

----------------------------------------------------------------------------
(* Loading the metadata log: ServerAsync::new applied to a range of log     *)
(* files, whole, cut short and damaged                                        *)

\* The most batches a log of BatchSeqs holds
MaxBatches == 2

\* A well-formed batch of one topic record
SmallBatch(base_offset, name) ==
    [base_offset |-> base_offset,
     records |-> << TopicRecord(name, Uuid(base_offset + 1)) >>]

SmallBatches == {SmallBatch(base_offset, name) : base_offset \in {0, 4}, name \in {NameBar, NameBaz}}

\* The sequences of at most MaxBatches well-formed batches, in any order of
\* their base offsets
BatchSeqs == UNION {[1..n -> SmallBatches] : n \in 0..MaxBatches}

\* The sequences of BatchSeqs, each with its log
WrittenLogs == {[seq |-> seq, bytes |-> WrittenLog(seq)] : seq \in BatchSeqs}

\* A log of two batches, and the length of its first batch
TwoBatchLog == WrittenLog(<< SmallBatch(0, NameBar), SmallBatch(4, NameBaz) >>)

FirstBatchLen == Len(WrittenBatch(SmallBatch(0, NameBar)))

\* TwoBatchLog cut after each of its bytes
CutLogs == {Take(TwoBatchLog, n) : n \in 0..Len(TwoBatchLog)}

\* Where one byte of a batch is changed: anywhere but in the high half of
\* base_offset and in the three i64 fields after last_offset_delta (bytes 28
\* to 51), whose values the model holds in 32 bits
DamageAt == (5..27) \cup (52..FirstBatchLen)

\* TwoBatchLog with one byte of its first or of its second batch changed
DamagedLogs ==
    {[TwoBatchLog EXCEPT ![p] = (TwoBatchLog[p] + 1) % 256] :
        p \in DamageAt \cup {FirstBatchLen + q : q \in DamageAt}}

\* The files ServerAsync::new is applied to
LoaderInputs ==
    {NoFile, UnreadableFile}
    \cup {FileOf(log.bytes) : log \in WrittenLogs}
    \cup {FileOf(bytes) : bytes \in CutLogs \cup DamagedLogs}

\* ServerAsync::new on any of the files
ServerAsync_new_any == \E file \in LoaderInputs : ServerAsync_new_on(file)

LoadInit == Init /\ server = "ServerAsync"

LoadNext == ServerAsync_new_any \/ Bind

LoadSpec == LoadInit /\ [][LoadNext]_vars

\* The whole batches at the head of a log, by the length each declares: a batch
\* is its 12 bytes of base_offset and batch_length and the batch_length bytes
\* after them
RECURSIVE RawBatches(_)
RawBatches(bytes) ==
    IF Len(bytes) < 12 THEN << >>
    ELSE IF BESigned(SubSeq(bytes, 9, 12)) < 9
            \/ BESigned(SubSeq(bytes, 9, 12)) > Len(bytes) - 12 THEN << >>
    ELSE << Take(bytes, 12 + BESigned(SubSeq(bytes, 9, 12))) >>
         \o RawBatches(Drop(bytes, 12 + BESigned(SubSeq(bytes, 9, 12))))

\* What a log holds after its whole batches
Trailing(bytes) == Drop(bytes, Len(Concat(RawBatches(bytes))))

\* The stored crc of a whole batch is the CRC-32C of its bytes from attributes
\* to its end
CrcHolds(raw) == BESigned(SubSeq(raw, 18, 21)) = crc32c(Drop(raw, 21))

\* ServerAsync::new has been applied to the file metadata.log
Loaded == server = "ServerAsync" /\ run # "start"

\* The file cannot be opened, cannot be read, or is not a sequence of whole
\* batches of matching crc
Unparsable(file) ==
    \/ ~file.exists \/ ~file.readable
    \/ Trailing(file.bytes) # << >>
    \/ \E i \in 1..Len(RawBatches(file.bytes)) : ~CrcHolds(RawBatches(file.bytes)[i])

\* C21: if the metadata log cannot be opened or does not parse, ServerAsync::new
\* fails with an error: the server is not built and no listener is bound.
C21_UnparsableLogBuildsNoServer ==
    (Loaded /\ Unparsable(metadata.log))
        => (~metadata.built /\ run = "failed" /\ ~ListenerOpen)

\* The server listens on an index loaded from a log that is cut inside a batch
C21_Witness ==
    /\ Loaded /\ ListenerOpen /\ metadata.built
    /\ Trailing(metadata.log.bytes) # << >>

\* The cuts of TwoBatchLog that fall on a batch boundary
BatchBoundaries == {0, FirstBatchLen, Len(TwoBatchLog)}

\* C22: loading a log that ends exactly at a batch boundary (the empty log
\* included) succeeds with the batches before the boundary; loading a log that
\* ends strictly inside a batch fails with an error and produces no index.
C22_CleanEofOrTruncatedBatch ==
    \A n \in 0..Len(TwoBatchLog) :
        (Loaded /\ metadata.log = FileOf(Take(TwoBatchLog, n)))
            => IF n \in BatchBoundaries
               THEN metadata.built
                    /\ Len(metadata.batches) = Cardinality({m \in BatchBoundaries : 0 < m /\ m <= n})
               ELSE ~metadata.built /\ run = "failed"

\* The log of a whole batch and the first three bytes of the next has been
\* loaded into an index of one batch
C22_Witness ==
    /\ Loaded /\ metadata.log = FileOf(Take(TwoBatchLog, FirstBatchLen + 3))
    /\ metadata.built /\ Len(metadata.batches) = 1

\* The index holds every batch of seq, one entry a batch, in strictly
\* increasing base_offset order
IndexOfAll(seq) ==
    /\ metadata.built
    /\ Len(metadata.batches) = Len(seq)
    /\ \A i \in 1..(Len(metadata.batches) - 1) :
           metadata.batches[i].base_offset < metadata.batches[i + 1].base_offset
    /\ \A i \in 1..Len(seq) : \E j \in 1..Len(metadata.batches) : metadata.batches[j] = seq[i]

\* C23: loading a log made of N well-formed batches yields an index of exactly
\* N entries, one per batch of the file, in strictly increasing base_offset
\* order, no batch of the file missing.
C23_EveryBatchIndexed ==
    \A log \in WrittenLogs :
        (Loaded /\ metadata.log = FileOf(log.bytes)) => IndexOfAll(log.seq)

\* A log of two well-formed batches of the same base_offset has been loaded
\* into an index of one entry, the second batch
C23_Witness ==
    /\ Loaded /\ metadata.built
    /\ metadata.log = FileOf(WrittenLog(<< SmallBatch(4, NameBar), SmallBatch(4, NameBaz) >>))
    /\ metadata.batches = << SmallBatch(4, NameBaz) >>

\* What does hold: the batches of a log whose base offsets differ pairwise are
\* all indexed, in increasing base_offset order whatever their order in the log
C23_DistinctOffsetsAllIndexed ==
    \A log \in WrittenLogs :
        (/\ Loaded /\ metadata.log = FileOf(log.bytes)
         /\ \A i, j \in 1..Len(log.seq) :
                i # j => log.seq[i].base_offset # log.seq[j].base_offset)
            => IndexOfAll(log.seq)

\* A log whose batches are in decreasing base_offset order has been loaded
C23_OutOfOrderLoaded ==
    /\ Loaded /\ metadata.built
    /\ metadata.log = FileOf(WrittenLog(<< SmallBatch(4, NameBar), SmallBatch(0, NameBaz) >>))
    /\ metadata.batches = << SmallBatch(0, NameBaz), SmallBatch(4, NameBar) >>

\* C24: every batch of a successfully built index had a stored crc equal to the
\* CRC-32C of its bytes from attributes to the end of its records, and a log in
\* which a batch has another stored crc makes the load fail with an error
\* instead of producing an index.
C24_CrcChecked ==
    Loaded =>
        /\ metadata.built =>
               \A i \in 1..Len(RawBatches(metadata.log.bytes)) :
                   CrcHolds(RawBatches(metadata.log.bytes)[i])
        /\ (\E i \in 1..Len(RawBatches(metadata.log.bytes)) :
                ~CrcHolds(RawBatches(metadata.log.bytes)[i]))
               => (~metadata.built /\ run = "failed")

\* A log of two batches, the first of matching crc and the second with a
\* changed byte under its crc, has failed to load
C24_Witness ==
    /\ Loaded /\ run = "failed" /\ ~metadata.built
    /\ Len(RawBatches(metadata.log.bytes)) = 2
    /\ CrcHolds(RawBatches(metadata.log.bytes)[1])
    /\ ~CrcHolds(RawBatches(metadata.log.bytes)[2])

\* C25: in a Fetch response that carries the records read from a partition log
\* file, the partition entry's partition_index is the partition id in the path
\* of the file that was read, the first partition id the index holds for the
\* topic.
C25_PartitionIndexOfTheFileRead ==
    \A c \in Clients :
        FetchAnswered(c) =>
            \A f \in LogFilesOf(SentFetchTopicId(lastRead[c])) :
                (/\ f.readable
                 /\ OneFetchPartition(response[c].body, SentFetchTopicId(lastRead[c]),
                                      0, f.bytes))
                    => response[c].body.responses[1].partitions[1].partition_index
                           = PartitionIdsOf(SentFetchTopicId(lastRead[c]))[1]

\* bar is fetched: the records are those of the file of bar-1, the partition
\* entry is of partition_index 0
C25_Witness ==
    \E c \in Clients :
        /\ FetchAnswered(c)
        /\ SentFetchTopicId(lastRead[c]) = Uuid(1)
        /\ PartitionIdsOf(Uuid(1)) = << 1, 0 >>
        /\ response[c].body.responses[1].partitions[1].records = << 4, 5 >>
        /\ response[c].body.responses[1].partitions[1].partition_index = 0

----------------------------------------------------------------------------
(* Decoding requests: read_request applied to a range of buffers, whole      *)
(* frames, frames cut short and frames with one field out of the ordinary    *)

\* A frame with another message_size
FrameWithSize(frame, message_size) == put_i32(message_size) \o Drop(frame, 4)

\* An ApiVersions frame that states 4 bytes of header and body, and one that
\* states 100
UnderstatedFrame == FrameWithSize(ApiVersionsFrame(18, 4, 2600), 4)

OverstatedFrame == FrameWithSize(ApiVersionsFrame(18, 4, 2601), 100)

\* Two frames that one read returns together
TwoFrames == ApiVersionsFrame(18, 4, 2602) \o ApiVersionsFrame(18, 4, 2603)

\* Frames in which a field announces more than the buffer holds: a client_id
\* of 9 bytes, a client_software_name of 9 bytes, a topic_id cut after 8
\* bytes, a topics array of 3 entries that holds 1
LongNullableString == TruncatedFrame(2700)

LongCompactString == ClientFrame(ClientHeader(18, 4, 2701) \o << 10, 107 >>)

ShortUuid == Take(FetchFrame(16, 2702, Uuid(1)), 45)

ShortArray ==
    ClientFrame(ClientHeader(75, 0, 2703) \o << 4 >>
                \o CompactString_to_be_bytes(NameBar) \o << 0 >>)

OverLengthFrames == {LongNullableString, LongCompactString, ShortUuid, ShortArray}

\* An ApiVersions frame whose client_software_name has the length prefix 0x00,
\* and a DescribeTopicPartitions frame whose topics array has it
ZeroCompactString ==
    ClientFrame(ClientHeader(18, 4, 2800) \o << 0 >>
                \o CompactString_to_be_bytes(<< 49 >>) \o << 0 >>)

ZeroCompactArray ==
    ClientFrame(ClientHeader(75, 0, 2801) \o << 0 >> \o put_i32(1) \o << 255 >> \o << 0 >>)

\* Frames with a tag buffer that is not 0x00: the header's (0x01), the body's
\* (one element, a null string) and that of a topic entry (0x01)
TaggedHeader ==
    ClientFrame(Take(ClientHeader(18, 4, 2900), 10) \o << 1 >>
                \o CompactString_to_be_bytes(<< 107 >>)
                \o CompactString_to_be_bytes(<< 49 >>) \o << 0 >>)

TaggedBody ==
    ClientFrame(ClientHeader(18, 4, 2901)
                \o CompactString_to_be_bytes(<< 107 >>)
                \o CompactString_to_be_bytes(<< 49 >>) \o << 2, 255, 255 >>)

TaggedTopic ==
    ClientFrame(ClientHeader(75, 0, 2902) \o << 2 >>
                \o CompactString_to_be_bytes(NameBar) \o << 1 >>
                \o put_i32(1) \o << 255 >> \o << 0 >>)

TaggedFrames == {TaggedHeader, TaggedBody, TaggedTopic}

\* A Fetch and a DescribeTopicPartitions frame cut after each of their bytes
CutFrames ==
    {Take(FetchFrame(16, 2500, Uuid(1)), n) : n \in 1..Len(FetchFrame(16, 2500, Uuid(1)))}
    \cup {Take(DescribeFrame(0, 2501, << NameBar >>), n) :
             n \in 1..Len(DescribeFrame(0, 2501, << NameBar >>))}

\* The buffers read_request is applied to
DecodeInputs ==
    {UnderstatedFrame, OverstatedFrame, TwoFrames, ZeroCompactString, ZeroCompactArray}
    \cup OverLengthFrames \cup TaggedFrames \cup CutFrames

\* The index of the populated metadata log
PopulatedIndex == CHOOSE index \in Indexes : index # << >>

\* Client 1 is connected, has sent one of the buffers, and its task waits in
\* read_request
DecodeInit ==
    /\ server \in {"ServerAsync", "ServerSync"}
    /\ metadata = IF server = "ServerSync" THEN NoMetadata
                  ELSE [built |-> TRUE, batches |-> PopulatedIndex,
                        log |-> FileOf(WrittenLog(PopulatedIndex))]
    /\ run = IF server = "ServerSync" THEN "handling" ELSE "listening"
    /\ backlog = << >>
    /\ peer = [c \in Clients |-> IF c = 1 THEN "open" ELSE "idle"]
    /\ \E buf \in DecodeInputs : inbox = [c \in Clients |-> IF c = 1 THEN buf ELSE << >>]
    /\ sent = 1
    /\ pc = [c \in Clients |-> IF c = 1 THEN "read" ELSE "none"]
    /\ request = [c \in Clients |-> NoRequest]
    /\ response = [c \in Clients |-> NoRequest]
    /\ decoded = [c \in Clients |-> << >>]
    /\ outbox = [c \in Clients |-> << >>]
    /\ lastRead = [c \in Clients |-> << >>]
    /\ exit = [c \in Clients |-> "none"]

DecodeNext ==
    \/ \E c \in Clients : ReadRequest(c)
    \/ \E c \in Clients : WriteResponse(c)

DecodeSpec == DecodeInit /\ [][DecodeNext]_vars

\* read_request of client c has decoded a request from its last read: handle
\* writes the response, or has written it
DecodedRead(c) == lastRead[c] # << >> /\ pc[c] \in {"write", "read"}

\* The bytes RequestV0::from_be_bytes consumed of a buffer it decodes
Consumed(buf) == Len(buf) - Len(RequestV0_from_be_bytes(buf).rest)

\* C26: a request is decoded from the message_size bytes after the length
\* prefix only: no byte beyond them is read as part of the request, and a
\* header and body that need more than message_size bytes fail to decode.
C26_DecodeConfinedToMessageSize ==
    \A c \in Clients :
        DecodedRead(c) => Consumed(lastRead[c]) <= 4 + FrameMessageSize(lastRead[c])

\* A frame that states 4 bytes of header and body has been decoded, header and
\* body, and is being answered
C26_Witness ==
    \E c \in Clients :
        /\ DecodedRead(c) /\ lastRead[c] = UnderstatedFrame
        /\ request[c].message_size = 4
        /\ Consumed(lastRead[c]) = Len(UnderstatedFrame)
        /\ request[c].body.client_software_name = << 107 >>

\* C27: decoding a field whose declared length exceeds the bytes left in the
\* input (the body of a nullable or compact string, a 16-byte uuid, the
\* elements of an array) returns a decode error: the task is not aborted, its
\* handle returns as on any other decode error.
C27_OverLengthFieldIsADecodeError ==
    \A c \in Clients :
        (lastRead[c] \in OverLengthFrames)
            => (pc[c] = "done" /\ exit[c] \in DecodeErrors)

\* The task of a client that sent a client_id announcing 9 bytes and holding 2
\* has panicked in copy_to_slice
C27_Witness ==
    \E c \in Clients :
        /\ lastRead[c] = LongNullableString
        /\ pc[c] = "panicked" /\ exit[c] = "copy_to_slice"

\* How the task ended on each of the frames with an over-long field
C27_OnlyArraysReturnErr ==
    \A c \in Clients :
        (lastRead[c] \in OverLengthFrames)
            => IF lastRead[c] = ShortArray
               THEN pc[c] = "done" /\ exit[c] \in DecodeErrors
               ELSE pc[c] = "panicked" /\ exit[c] = "copy_to_slice"

\* C28: a COMPACT_STRING of length prefix 0x00 decodes to the empty string and
\* a COMPACT_ARRAY of length prefix 0x00 to the empty array, one byte consumed
\* and no error raised: the request that holds it is decoded, with the fields
\* after it.
C28_ZeroPrefixDecodesToEmpty ==
    \A c \in Clients :
        /\ lastRead[c] = ZeroCompactString =>
               /\ DecodedRead(c)
               /\ request[c].body.client_software_name = << >>
               /\ request[c].body.client_software_version = << 49 >>
        /\ lastRead[c] = ZeroCompactArray =>
               /\ DecodedRead(c)
               /\ request[c].body.topics = << >>
               /\ request[c].body.response_partiotion_limit = 1

\* The task of a client whose client_software_name has the prefix 0x00 has
\* panicked at the subtraction
C28_Witness ==
    \E c \in Clients :
        /\ lastRead[c] = ZeroCompactString
        /\ pc[c] = "panicked" /\ exit[c] = "subtract with overflow"

\* The array half of C28 alone
C28_ZeroArrayIsEmpty ==
    \A c \in Clients :
        lastRead[c] = ZeroCompactArray =>
            /\ DecodedRead(c)
            /\ request[c].body.topics = << >>
            /\ request[c].body.response_partiotion_limit = 1
            /\ Consumed(lastRead[c]) = Len(ZeroCompactArray)

\* C29: a request in which a tag buffer (the header's, the body's or that of a
\* topic entry) is not the single byte 0x00 is rejected as malformed: decoding
\* fails and no response is built for it.
C29_NonZeroTagBufferRejected ==
    \A c \in Clients :
        lastRead[c] \in TaggedFrames =>
            /\ pc[c] = "done" /\ exit[c] \in DecodeErrors
            /\ response[c] = NoRequest

\* A request whose header has the tag buffer 0x01 has been decoded and answered
C29_Witness ==
    \E c \in Clients :
        /\ lastRead[c] = TaggedHeader
        /\ request[c].header.tag = << >>
        /\ Len(outbox[c]) = 1
        /\ FrameCorrelationId(outbox[c][1]) = 2900

\* What happens instead: each of the three requests is decoded, the tag buffer
\* taken for an array of nullable strings
C29_TagBuffersAreArrays ==
    \A c \in Clients :
        /\ lastRead[c] \in TaggedFrames => DecodedRead(c)
        /\ lastRead[c] = TaggedBody => request[c].body.tag = << None >>
        /\ lastRead[c] = TaggedTopic => request[c].body.topics[1].tag = << >>

-----------------------------------------------------------------------------
(* VarInt and UnsignedVarInt applied to the values of CodecValues: to_be_bytes
   of a value, then from_be_bytes of the bytes written, other bytes behind
   them.  request[1] holds the value, lastRead[1] the bytes to_be_bytes wrote
   and response[1] what from_be_bytes returned. *)

\* Values either side of every change of the encoded length, the zig-zag sign
\* changes and the ends of the 32-bit range; a negative value stands for the
\* u32 with the same bits when it is given to UnsignedVarInt
CodecValues ==
    (-66 .. 66) \cup (125 .. 130)
    \cup UNION {{Pow2(k) - 1, Pow2(k), Pow2(k) + 1, -Pow2(k) - 1, -Pow2(k), 1 - Pow2(k)} :
                    k \in {7, 13, 14, 20, 21, 27, 28, 30}}
    \cup {MaxI32, MaxI32 - 1, MinI32, MinI32 + 1}

Codecs == {"VarInt", "UnsignedVarInt"}

\* The bytes that follow the encoded value in the buffer
CodecTrailing == {<< >>, << 128, 1 >>}

Codec_to_be_bytes(codec, value) ==
    IF codec = "VarInt" THEN VarInt_to_be_bytes(value) ELSE UnsignedVarInt_to_be_bytes(value)

Codec_from_be_bytes(codec, buf) ==
    IF codec = "VarInt" THEN VarInt_from_be_bytes(buf) ELSE UnsignedVarInt_from_be_bytes(buf)

CodecInit ==
    /\ server \in {"ServerAsync", "ServerSync"}
    /\ metadata = NoMetadata
    /\ run = "start"
    /\ backlog = << >>
    /\ peer = [c \in Clients |-> "idle"]
    /\ inbox = [c \in Clients |-> << >>]
    /\ sent = 0
    /\ pc = [c \in Clients |-> IF c = 1 THEN "to_be_bytes" ELSE "none"]
    /\ \E codec \in Codecs, value \in CodecValues, trailing \in CodecTrailing :
           request = [c \in Clients |->
                         IF c = 1 THEN [type |-> codec, value |-> value, trailing |-> trailing]
                         ELSE NoRequest]
    /\ response = [c \in Clients |-> NoRequest]
    /\ decoded = [c \in Clients |-> << >>]
    /\ outbox = [c \in Clients |-> << >>]
    /\ lastRead = [c \in Clients |-> << >>]
    /\ exit = [c \in Clients |-> "none"]

Codec_encode ==
    /\ pc[1] = "to_be_bytes"
    /\ lastRead' = [lastRead EXCEPT ![1] = Codec_to_be_bytes(request[1].type, request[1].value)]
    /\ pc' = [pc EXCEPT ![1] = "from_be_bytes"]
    /\ UNCHANGED << server, metadata, run, backlog, client_vars, request, response,
                    decoded, outbox, exit >>

Codec_decode ==
    /\ pc[1] = "from_be_bytes"
    /\ response' = [response EXCEPT ![1] =
                        Codec_from_be_bytes(request[1].type, lastRead[1] \o request[1].trailing)]
    /\ pc' = [pc EXCEPT ![1] = "done"]
    /\ UNCHANGED << server, metadata, run, backlog, client_vars, request, decoded,
                    outbox, lastRead, exit >>

CodecNext == Codec_encode \/ Codec_decode

CodecSpec == CodecInit /\ [][CodecNext]_vars

\* to_be_bytes of `value` by the codec has written `bytes`
CodecWrote(codec, value, bytes) ==
    (request[1].type = codec /\ request[1].value = value /\ pc[1] # "to_be_bytes")
        => lastRead[1] = bytes

\* C30: from_be_bytes of what to_be_bytes wrote returns the value written and
\* leaves exactly the bytes behind it unread, for VARINT over the signed and
\* UNSIGNED_VARINT over the unsigned 32-bit values; VARINT writes -1 as 0x01,
\* 1 as 0x02, -2 as 0x03 and 2 as 0x04, UNSIGNED_VARINT writes 127 as 0x7F and
\* 128 as 0x80 0x01.
C30_VarIntRoundTrip ==
    /\ pc[1] = "done" =>
           response[1] = Ok(request[1].value, request[1].trailing)
    /\ pc[1] \in {"from_be_bytes", "done"} => Len(lastRead[1]) \in 1..5
    /\ CodecWrote("VarInt", -1, << 1 >>)
    /\ CodecWrote("VarInt", 1, << 2 >>)
    /\ CodecWrote("VarInt", -2, << 3 >>)
    /\ CodecWrote("VarInt", 2, << 4 >>)
    /\ CodecWrote("UnsignedVarInt", 127, << 127 >>)
    /\ CodecWrote("UnsignedVarInt", 128, << 128, 1 >>)

\* The least i32, written by VarInt in five bytes, has been read back with
\* other bytes behind it
C30_Witness ==
    /\ pc[1] = "done"
    /\ request[1] = [type |-> "VarInt", value |-> MinI32, trailing |-> << 128, 1 >>]
    /\ lastRead[1] = << 255, 255, 255, 255, 15 >>
    /\ response[1] = Ok(MinI32, << 128, 1 >>)

\* The greatest u32 has been written by UnsignedVarInt and read back
C30_UnsignedWitness ==
    /\ pc[1] = "done"
    /\ request[1].type = "UnsignedVarInt" /\ request[1].value = -1
    /\ lastRead[1] = << 255, 255, 255, 255, 15 >>
    /\ response[1].v = -1

====
